---- MODULE Spec2Model ----
(***************************************************************************)
(* A model of the LeetCode command-line client (src/src/*.py):             *)
(*   - the filter normalisers of LeetCodeCLI (cli.py),                     *)
(*   - the query builder and the transport of LeetCodeAPI (api.py),        *)
(*   - the session manager (session.py) and the response mapper            *)
(*     (models.py).                                                        *)
(*                                                                         *)
(* Python strings are sequences of one-character strings, so that lower(), *)
(* upper() and strip() are computed character by character.  Python's None *)
(* is the one-element sequence <<"None">>, which is no string of the model *)
(* (its element is not a single character).  A Python dict is a function   *)
(* whose domain is the set of its keys.                                    *)
(*                                                                         *)
(* Six specifications share the variables:                                 *)
(*   SpecFilter  applies the normalisers to raw command-line values,       *)
(*   SpecQuery   builds the request variables of fetch_questions,          *)
(*   Spec        drives a SessionManager and a LeetCodeAPI through         *)
(*               load_session, save_session and the three API calls,       *)
(*               against an arbitrary server,                              *)
(*   SpecSession saves and loads tokens through SessionManager objects     *)
(*               sharing one session file,                                 *)
(*   SpecMapper  maps raw question and user records (models.py),           *)
(*   SpecCli     runs one invocation of the command line (LeetCodeCLI.run) *)
(*               on any arguments, session file and server.                *)
(***************************************************************************)
EXTENDS Integers, Sequences, FiniteSets, TLC

VARIABLES
    norm,            \* the last normaliser call: its name, raw argument and outcome
    filter_criteria, \* the QuestionFilter handed to the query builder
    variables,       \* the GraphQL variables fetch_questions built from it
    session_file,    \* the content of the session file, or NoFile
    session_token,   \* SessionManager.session_token
    decode_error,    \* the class of the exception response.json() raises in this build
    response,        \* what the network answered to the last call, or NoAnswer
    request,         \* the POST the last call issued, or NoRequest
    result,          \* the outcome of the last SessionManager / LeetCodeAPI call
    posts,           \* the number of HTTP POSTs issued so far
    mapped,          \* the last call of the response mapper: its raw record and outcome
    cli              \* one invocation of the command line: its arguments, position,
                     \* output streams and exit code

vars == <<norm, filter_criteria, variables, session_file, session_token,
          decode_error, response, request, result, posts, mapped, cli>>

---------------------------------------------------------------------------
(* Strings *)

None == <<"None">>

EmptyStr == <<>>

LowerChars == <<"a","b","c","d","e","f","g","h","i","j","k","l","m",
                "n","o","p","q","r","s","t","u","v","w","x","y","z">>

UpperChars == <<"A","B","C","D","E","F","G","H","I","J","K","L","M",
                "N","O","P","Q","R","S","T","U","V","W","X","Y","Z">>

Whitespace == {" ", "\t", "\n"}

\* Python's truth value of an Optional[str]: None and "" are false.
Truthy(s) == s # None /\ s # EmptyStr

LowerChar(c) ==
    IF \E i \in DOMAIN UpperChars : UpperChars[i] = c
    THEN LowerChars[CHOOSE i \in DOMAIN UpperChars : UpperChars[i] = c]
    ELSE c

UpperChar(c) ==
    IF \E i \in DOMAIN LowerChars : LowerChars[i] = c
    THEN UpperChars[CHOOSE i \in DOMAIN LowerChars : LowerChars[i] = c]
    ELSE c

\* str.lower()
StrLower(s) == [i \in DOMAIN s |-> LowerChar(s[i])]

\* str.upper()
StrUpper(s) == [i \in DOMAIN s |-> UpperChar(s[i])]

RECURSIVE LStrip(_)
LStrip(s) ==
    IF s # <<>> /\ Head(s) \in Whitespace THEN LStrip(Tail(s)) ELSE s

RECURSIVE RStrip(_)
RStrip(s) ==
    IF s # <<>> /\ s[Len(s)] \in Whitespace
    THEN RStrip(SubSeq(s, 1, Len(s) - 1))
    ELSE s

\* str.strip()
Strip(s) == RStrip(LStrip(s))

---------------------------------------------------------------------------
(* config.py *)

SOLVED == <<"S","O","L","V","E","D">>

ATTEMPTED == <<"A","T","T","E","M","P","T","E","D">>

TO_DO == <<"T","O","_","D","O">>

\* QuestionStatus.all()
QuestionStatusAll == {SOLVED, ATTEMPTED, TO_DO}

Easy == <<"E","a","s","y">>

Medium == <<"M","e","d","i","u","m">>

Hard == <<"H","a","r","d">>

---------------------------------------------------------------------------
(* Outcomes of a call: a returned value or a raised exception *)

NoExc == [type |-> "none"]

Return(v) == [raised |-> FALSE, value |-> v, exc |-> NoExc]

Raise(e) == [raised |-> TRUE, value |-> None, exc |-> e]

\* ValueError(f"Invalid <field> '<raw>'. Valid options: <options joined>")
ValueError(field, raw, options) ==
    [type |-> "ValueError", field |-> field, raw |-> raw, valid_options |-> options]

---------------------------------------------------------------------------
(* cli.py: the filter normalisers *)

w_solved == <<"s","o","l","v","e","d">>

w_attempted == <<"a","t","t","e","m","p","t","e","d">>

w_todo == <<"t","o","d","o">>

w_to_do == <<"t","o","_","d","o">>

w_to_dash_do == <<"t","o","-","d","o">>

w_easy == <<"e","a","s","y">>

w_medium == <<"m","e","d","i","u","m">>

w_hard == <<"h","a","r","d">>

\* dict.get(key): the value of key, or None
DictGet(d, key) == IF key \in DOMAIN d THEN d[key] ELSE None

\* The dict literal of _normalize_status.  Its keys are compared with the
\* lower-cased input, so the three upper-case keys are never hit.
status_mapping ==
    (w_solved :> SOLVED) @@ (w_attempted :> ATTEMPTED) @@ (w_todo :> TO_DO)
    @@ (w_to_do :> TO_DO) @@ (w_to_dash_do :> TO_DO)
    @@ (SOLVED :> SOLVED) @@ (ATTEMPTED :> ATTEMPTED) @@ (TO_DO :> TO_DO)

difficulty_mapping ==
    (w_easy :> Easy) @@ (w_medium :> Medium) @@ (w_hard :> Hard)
    @@ (Easy :> Easy) @@ (Medium :> Medium) @@ (Hard :> Hard)

\* _normalize_status with the lookup made on the raw value instead of the
\* lower-cased one (a variant of the code, used to test the properties).
NormalizeStatusRawLookup(status) ==
    IF ~Truthy(status) THEN Return(None)
    ELSE LET normalized == DictGet(status_mapping, status)
         IN  IF ~Truthy(normalized)
             THEN Raise(ValueError("status", status, <<w_solved, w_attempted, w_todo>>))
             ELSE Return(normalized)

\* LeetCodeCLI._normalize_status
NormalizeStatus(status) ==
    IF ~Truthy(status) THEN Return(None)
    ELSE LET normalized == DictGet(status_mapping, StrLower(status))
         IN  IF ~Truthy(normalized)
             THEN Raise(ValueError("status", status, <<w_solved, w_attempted, w_todo>>))
             ELSE Return(normalized)

\* _normalize_difficulty passing an unrecognised value through instead of
\* rejecting it (a variant of the code, used to test the properties).
NormalizeDifficultyPassThrough(difficulty) ==
    IF ~Truthy(difficulty) THEN Return(None)
    ELSE LET normalized == DictGet(difficulty_mapping, StrLower(difficulty))
         IN  IF ~Truthy(normalized) THEN Return(difficulty) ELSE Return(normalized)

\* LeetCodeCLI._normalize_difficulty
NormalizeDifficulty(difficulty) ==
    IF ~Truthy(difficulty) THEN Return(None)
    ELSE LET normalized == DictGet(difficulty_mapping, StrLower(difficulty))
         IN  IF ~Truthy(normalized)
             THEN Raise(ValueError("difficulty", difficulty, <<w_easy, w_medium, w_hard>>))
             ELSE Return(normalized)

---------------------------------------------------------------------------
(* models.py: QuestionFilter, and api.py: the query builder *)

MaxLimit == 2

MaxSkip == 1

\* Config.DEFAULT_LIMIT
DefaultLimit == 50

EmptyDict == [k \in {} |-> None]

\* fetch_questions, "Add status filter"
StatusFilterPart(f) ==
    IF Truthy(f.status)
    THEN "statusFilter" :> [questionStatuses |-> <<f.status>>, operator |-> "IS"]
    ELSE EmptyDict

\* "Add difficulty filter" without the upper-casing (a variant of the code).
DifficultyFilterPartAsGiven(f) ==
    IF Truthy(f.difficulty)
    THEN "difficultyFilter" :> [difficulties |-> <<f.difficulty>>, operator |-> "IS"]
    ELSE EmptyDict

\* fetch_questions, "Add difficulty filter"
DifficultyFilterPart(f) ==
    IF Truthy(f.difficulty)
    THEN "difficultyFilter" :>
             [difficulties |-> <<StrUpper(f.difficulty)>>, operator |-> "IS"]
    ELSE EmptyDict

\* fetch_questions, "Add paid filter"
PaidFilterPart(f) ==
    IF ~f.include_paid
    THEN "paidOnlyFilter" :> [paidOnly |-> FALSE, operator |-> "IS"]
    ELSE EmptyDict

\* "Build filters" with the status filter added unconditionally (a variant
\* of the code).
BuildFiltersStatusAlways(f) ==
    ("filterCombineType" :> "ALL")
    @@ ("statusFilter" :> [questionStatuses |-> <<f.status>>, operator |-> "IS"])
    @@ DifficultyFilterPart(f)
    @@ PaidFilterPart(f)

\* fetch_questions, "Build filters"
BuildFilters(f) ==
    ("filterCombineType" :> "ALL")
    @@ StatusFilterPart(f)
    @@ DifficultyFilterPart(f)
    @@ PaidFilterPart(f)

\* "Build variables" with the search keyword copied unconditionally (a
\* variant of the code).
BuildVariablesKeywordAlways(f) ==
    ("limit" :> f.limit)
    @@ ("skip" :> f.skip)
    @@ ("sortBy" :> [sortField |-> "CUSTOM", sortOrder |-> "ASCENDING"])
    @@ ("searchKeyword" :> f.search_keyword)
    @@ ("filters" :> BuildFilters(f))

\* fetch_questions, "Build variables for GraphQL query" up to
\* variables["filters"] = filters
BuildVariables(f) ==
    ("limit" :> f.limit)
    @@ ("skip" :> f.skip)
    @@ ("sortBy" :> [sortField |-> "CUSTOM", sortOrder |-> "ASCENDING"])
    @@ (IF Truthy(f.search_keyword)
        THEN "searchKeyword" :> f.search_keyword
        ELSE EmptyDict)
    @@ ("filters" :> BuildFilters(f))

\* fetch_questions, "Validate status filter": whether the call is rejected
\* before any variable is built
StatusRejected(f) == Truthy(f.status) /\ f.status \notin QuestionStatusAll

---------------------------------------------------------------------------
(* Decoded JSON.  Every JSON value carries its type, so that any two can   *)
(* be compared; JNull is what Python reads as None.                        *)

JNull == [t |-> "null"]

JStr(s) == [t |-> "str", v |-> s]

JNum(n) == [t |-> "num", v |-> n]

JBool(b) == [t |-> "bool", v |-> b]

JList(s) == [t |-> "list", v |-> s]

JObj(f) == [t |-> "obj", v |-> f]

JEmptyObj == JObj([k \in {} |-> JNull])

\* Python's truth value of a decoded JSON value
JTruthy(x) ==
    CASE x.t = "null" -> FALSE
      [] x.t = "str"  -> x.v # <<>>
      [] x.t = "num"  -> x.v # 0
      [] x.t = "bool" -> x.v
      [] x.t = "list" -> x.v # <<>>
      [] x.t = "obj"  -> DOMAIN x.v # {}

\* key in d, for a dict d
HasKey(d, key) == d.t = "obj" /\ key \in DOMAIN d.v

\* d.get(key, default), for a dict d
JGet(d, key, default) == IF key \in DOMAIN d.v THEN d.v[key] ELSE default

---------------------------------------------------------------------------
(* session.py *)

MaxTokenLen == 1

NoFile == <<"NoFile">>

TokenChars == {"a", " "}

\* The texts a session file can hold and save_session can be given
Texts == UNION {[1..n -> TokenChars] : n \in 0..MaxTokenLen}

\* SessionManager.is_session_loaded
IsSessionLoaded(token) == token # None

\* SessionManager.get_session_cookies
GetSessionCookies(token) ==
    IF ~Truthy(token) THEN [k \in {} |-> None] ELSE "LEETCODE_SESSION" :> token

\* load_session taking the content of the file as it is, without strip() (a
\* variant of the code)
LoadSessionUnstripped(file, token, read_fails) ==
    IF file = NoFile THEN [ok |-> FALSE, token |-> token]
    ELSE IF read_fails THEN [ok |-> FALSE, token |-> token]
    ELSE IF ~Truthy(file) THEN [ok |-> FALSE, token |-> token]
    ELSE [ok |-> TRUE, token |-> file]

\* SessionManager.load_session: what it returns and the token it leaves.
\* read_fails: open() or read() raises IOError although the file exists.
LoadSession(file, token, read_fails) ==
    IF file = NoFile THEN [ok |-> FALSE, token |-> token]
    ELSE IF read_fails THEN [ok |-> FALSE, token |-> token]
    ELSE IF ~Truthy(Strip(file)) THEN [ok |-> FALSE, token |-> token]
    ELSE [ok |-> TRUE, token |-> Strip(file)]

\* SessionManager.save_session: what it returns, the token and the file it
\* leaves.  fault: "none", "open" (open() raises, the file is untouched) or
\* "write" (open() has truncated the file and write() raises).
SaveSession(file, token, new_token, fault) ==
    CASE fault = "none"  -> [ok |-> TRUE, token |-> new_token, file |-> new_token]
      [] fault = "open"  -> [ok |-> FALSE, token |-> token, file |-> file]
      [] fault = "write" -> [ok |-> FALSE, token |-> token, file |-> EmptyStr]

SaveFaults == {"none", "open", "write"}

---------------------------------------------------------------------------
(* api.py: the transport *)

\* HTTP 200
StatusOK == 200

RECURSIVE IntToStr(_)
\* f"{n}" for n >= 0
IntToStr(n) ==
    LET digit == <<"0","1","2","3","4","5","6","7","8","9">>[(n % 10) + 1]
    IN  IF n < 10 THEN <<digit>> ELSE IntToStr(n \div 10) \o <<digit>>

RECURSIVE Join(_)
\* ', '.join(strings)
Join(strings) ==
    IF strings = <<>> THEN <<>>
    ELSE IF Len(strings) = 1 THEN strings[1]
    ELSE strings[1] \o <<",", " ">> \o Join(Tail(strings))

UnknownError == <<"U","n","k","n","o","w","n"," ","e","r","r","o","r">>

\* [error.get('message', 'Unknown error') for error in data['errors']],
\* the messages being strings
ErrorMessages(data) ==
    LET errors == data.v["errors"].v
    IN  [i \in DOMAIN errors |-> JGet(errors[i], "message", JStr(UnknownError)).v]

\* LeetCodeAPIError(message): kind names the message's fixed text, parts are
\* the values formatted into it, in order.
APIError(kind, parts) == [type |-> "LeetCodeAPIError", kind |-> kind, parts |-> parts]

\* str(e) of the exception json.loads raises on a text that is not JSON: it
\* names what was expected and where, and does not quote the text.
DecodeMessage(text) == <<"E","x","p","e","c","t","i","n","g"," ","v","a","l","u","e",":"," ","l","i","n","e"," ","1"," ","c","o","l","u","m","n"," ","1"," ","(","c","h","a","r"," ","0",")">>

\* An answer of the network to requests.post: a failure of the exchange
\* (requests.RequestException) or a response with a status and a body.
NetFailure(cause) == [failed |-> TRUE, cause |-> cause]

HttpResponse(status_code, body) ==
    [failed |-> FALSE, status_code |-> status_code, body |-> body]

Json(doc) == [is_json |-> TRUE, doc |-> doc]

NotJson(text) == [is_json |-> FALSE, text |-> text]

\* The classes the exception of response.json() can have, by the handler
\* of _make_request that catches it: requests >= 2.27 raises
\* requests.exceptions.JSONDecodeError, which is a RequestException and is
\* caught by the first handler; older versions raise json.JSONDecodeError,
\* caught by the second.
DecodeErrorClasses == {"RequestException", "JSONDecodeError"}

\* _make_request from "if response.status_code != 200" to "return data"
ClassifyDecoded(status_code, data) ==
    IF status_code # StatusOK
    THEN Raise(APIError("StatusCode",
             IF HasKey(data, "errors")
             THEN <<IntToStr(status_code), Join(ErrorMessages(data))>>
             ELSE <<IntToStr(status_code)>>))
    ELSE IF HasKey(data, "errors")
    THEN Raise(APIError("GraphQLErrors", <<Join(ErrorMessages(data))>>))
    ELSE Return(data)

\* _make_request with the decoded body examined only after the status (a
\* variant of the code): a non-200 response fails on its status before its
\* body is decoded
ClassifyStatusFirst(answer, dec) ==
    IF answer.failed
    THEN Raise(APIError("NetworkError", <<answer.cause>>))
    ELSE IF answer.status_code # StatusOK /\ ~answer.body.is_json
    THEN Raise(APIError("StatusCode", <<IntToStr(answer.status_code)>>))
    ELSE IF ~answer.body.is_json
    THEN IF dec = "RequestException"
         THEN Raise(APIError("NetworkError", <<DecodeMessage(answer.body.text)>>))
         ELSE Raise(APIError("ParseError", <<DecodeMessage(answer.body.text)>>))
    ELSE ClassifyDecoded(answer.status_code, answer.body.doc)

\* _make_request from requests.post to the end: the exchange, response.json()
\* and the two exception handlers
Classify(answer, dec) ==
    IF answer.failed
    THEN Raise(APIError("NetworkError", <<answer.cause>>))
    ELSE IF ~answer.body.is_json
    THEN IF dec = "RequestException"
         THEN Raise(APIError("NetworkError", <<DecodeMessage(answer.body.text)>>))
         ELSE Raise(APIError("ParseError", <<DecodeMessage(answer.body.text)>>))
    ELSE ClassifyDecoded(answer.status_code, answer.body.doc)

NoRequest == [cookies |-> [k \in {} |-> None], json |-> EmptyDict]

\* _make_request without the test of is_session_loaded (a variant of the code)
MakeRequestUnguarded(token, query, vars_, answer, dec) ==
    [posted  |-> TRUE,
     request |-> [cookies |-> GetSessionCookies(token),
                  json |-> ("query" :> query)
                           @@ (IF vars_ # EmptyDict THEN "variables" :> vars_
                               ELSE EmptyDict)],
     out     |-> Classify(answer, dec)]

\* LeetCodeAPI._make_request: whether requests.post was called, with what,
\* and the outcome.  vars_ = EmptyDict stands for variables=None.
MakeRequest(token, query, vars_, answer, dec) ==
    IF ~IsSessionLoaded(token)
    THEN [posted  |-> FALSE,
          request |-> NoRequest,
          out     |-> Raise(APIError("SessionNotLoaded", <<>>))]
    ELSE [posted  |-> TRUE,
          request |-> [cookies |-> GetSessionCookies(token),
                       json |-> ("query" :> query)
                                @@ (IF vars_ # EmptyDict THEN "variables" :> vars_
                                    ELSE EmptyDict)],
          out     |-> Classify(answer, dec)]

---------------------------------------------------------------------------
(* models.py: the response mapper.  A Python exception is a record of its  *)
(* class and of str(e).                                                    *)

PyExc(type, text) == [type |-> type, text |-> text]

AttributeErrorGet == PyExc("AttributeError", <<"'","N","o","n","e","T","y","p","e","'"," ","o","b","j","e","c","t"," ","h","a","s"," ","n","o"," ","a","t","t","r","i","b","u","t","e"," ","'","g","e","t","'">>)

NotSubscriptable == PyExc("TypeError", <<"o","b","j","e","c","t"," ","i","s"," ","n","o","t"," ","s","u","b","s","c","r","i","p","t","a","b","l","e">>)

NotIterable == PyExc("TypeError", <<"o","b","j","e","c","t"," ","i","s"," ","n","o","t"," ","i","t","e","r","a","b","l","e">>)

\* KeyError(key): str(e) is the key between quotes
KeyErrorOf(key) == PyExc("KeyError", <<"'">> \o key \o <<"'">>)

k_username == <<"u","s","e","r","n","a","m","e">>

k_difficulty == <<"d","i","f","f","i","c","u","l","t","y">>

k_count == <<"c","o","u","n","t">>

k_questionFrontendId == <<"q","u","e","s","t","i","o","n","F","r","o","n","t","e","n","d","I","d">>

k_title == <<"t","i","t","l","e">>

k_titleSlug == <<"t","i","t","l","e","S","l","u","g">>

k_name == <<"n","a","m","e">>

RECURSIVE SolvedCountsFirstKept(_, _)
\* The loop keeping the first count of a difficulty instead of the last (a
\* variant of the code)
SolvedCountsFirstKept(submissions, counts) ==
    IF submissions = <<>> THEN Return(counts)
    ELSE LET submission == Head(submissions)
         IN  IF submission.t # "obj" THEN Raise(NotSubscriptable)
             ELSE IF ~HasKey(submission, "difficulty") THEN Raise(KeyErrorOf(k_difficulty))
             ELSE IF ~HasKey(submission, "count") THEN Raise(KeyErrorOf(k_count))
             ELSE SolvedCountsFirstKept(Tail(submissions),
                      counts @@ (submission.v["difficulty"] :> submission.v["count"]))

RECURSIVE SolvedCounts(_, _)
\* The loop of UserInfo.from_api_response over acSubmissionNum, from the
\* dict built so far: the outcome is the dict, or the first KeyError.
SolvedCounts(submissions, counts) ==
    IF submissions = <<>> THEN Return(counts)
    ELSE LET submission == Head(submissions)
         IN  IF submission.t # "obj" THEN Raise(NotSubscriptable)
             ELSE IF ~HasKey(submission, "difficulty") THEN Raise(KeyErrorOf(k_difficulty))
             ELSE IF ~HasKey(submission, "count") THEN Raise(KeyErrorOf(k_count))
             ELSE SolvedCounts(Tail(submissions),
                      (submission.v["difficulty"] :> submission.v["count"]) @@ counts)

\* UserInfo.from_api_response, for a truthy data
UserInfoFromApiResponse(data) ==
    IF data.t # "obj" THEN Raise(NotSubscriptable)
    ELSE IF ~HasKey(data, "username") THEN Raise(KeyErrorOf(k_username))
    ELSE IF HasKey(data, "submitStats")
            /\ data.v["submitStats"].t \notin {"obj", "list", "str"}
    THEN Raise(NotIterable)
    ELSE IF HasKey(data, "submitStats") /\ HasKey(data.v["submitStats"], "acSubmissionNum")
    THEN LET subs == data.v["submitStats"].v["acSubmissionNum"]
         IN  IF subs.t # "list" THEN Raise(NotIterable)
             ELSE LET counts == SolvedCounts(subs.v, [k \in {} |-> JNull])
                  IN  IF counts.raised THEN counts
                      ELSE Return([username |-> data.v["username"],
                                   solved_counts |-> counts.value])
    ELSE Return([username |-> data.v["username"],
                 solved_counts |-> [k \in {} |-> JNull]])

RECURSIVE TopicNamesReversed(_)
\* The names of the tags collected last first (a variant of the code)
TopicNamesReversed(tags) ==
    IF tags = <<>> THEN Return(<<>>)
    ELSE IF Head(tags).t # "obj" THEN Raise(NotSubscriptable)
    ELSE IF ~HasKey(Head(tags), "name") THEN Raise(KeyErrorOf(k_name))
    ELSE LET rest == TopicNamesReversed(Tail(tags))
         IN  IF rest.raised THEN rest
             ELSE Return(rest.value \o <<Head(tags).v["name"]>>)

RECURSIVE TopicNames(_)
\* [tag['name'] for tag in tags]: the names, or the first exception
TopicNames(tags) ==
    IF tags = <<>> THEN Return(<<>>)
    ELSE IF Head(tags).t # "obj" THEN Raise(NotSubscriptable)
    ELSE IF ~HasKey(Head(tags), "name") THEN Raise(KeyErrorOf(k_name))
    ELSE LET rest == TopicNames(Tail(tags))
         IN  IF rest.raised THEN rest
             ELSE Return(<<Head(tags).v["name"]>> \o rest.value)

\* Question.from_api_response reading the tags with data['topicTags']
\* instead of data.get('topicTags', []) (a variant of the code)
QuestionFromApiResponseTagsRequired(data) ==
    IF data.t # "obj" THEN Raise(NotSubscriptable)
    ELSE IF ~HasKey(data, "questionFrontendId") THEN Raise(KeyErrorOf(k_questionFrontendId))
    ELSE IF ~HasKey(data, "title") THEN Raise(KeyErrorOf(k_title))
    ELSE IF ~HasKey(data, "titleSlug") THEN Raise(KeyErrorOf(k_titleSlug))
    ELSE IF ~HasKey(data, "difficulty") THEN Raise(KeyErrorOf(k_difficulty))
    ELSE IF ~HasKey(data, "topicTags") THEN Raise(KeyErrorOf(<<"t","o","p","i","c","T","a","g","s">>))
    ELSE LET tags == data.v["topicTags"]
         IN  IF tags.t # "list" THEN Raise(NotIterable)
             ELSE LET topics == TopicNames(tags.v)
                  IN  IF topics.raised THEN topics
                      ELSE Return(
                          [id              |-> data.v["questionFrontendId"],
                           title           |-> data.v["title"],
                           title_slug      |-> data.v["titleSlug"],
                           difficulty      |-> data.v["difficulty"],
                           status          |-> JGet(data, "status", JNull),
                           topics          |-> topics.value,
                           acceptance_rate |-> JGet(data, "acRate", JNum(0)),
                           is_paid_only    |-> JGet(data, "paidOnly", JBool(FALSE)),
                           frequency       |-> JGet(data, "frequency", JNull)])

\* Question.from_api_response: the arguments of cls(...) are evaluated in
\* the order they are written, so the first missing key decides the error.
QuestionFromApiResponse(data) ==
    IF data.t # "obj" THEN Raise(NotSubscriptable)
    ELSE IF ~HasKey(data, "questionFrontendId") THEN Raise(KeyErrorOf(k_questionFrontendId))
    ELSE IF ~HasKey(data, "title") THEN Raise(KeyErrorOf(k_title))
    ELSE IF ~HasKey(data, "titleSlug") THEN Raise(KeyErrorOf(k_titleSlug))
    ELSE IF ~HasKey(data, "difficulty") THEN Raise(KeyErrorOf(k_difficulty))
    ELSE LET tags == JGet(data, "topicTags", JList(<<>>))
         IN  IF tags.t # "list" THEN Raise(NotIterable)
             ELSE LET topics == TopicNames(tags.v)
                  IN  IF topics.raised THEN topics
                      ELSE Return(
                          [id              |-> data.v["questionFrontendId"],
                           title           |-> data.v["title"],
                           title_slug      |-> data.v["titleSlug"],
                           difficulty      |-> data.v["difficulty"],
                           status          |-> JGet(data, "status", JNull),
                           topics          |-> topics.value,
                           acceptance_rate |-> JGet(data, "acRate", JNum(0)),
                           is_paid_only    |-> JGet(data, "paidOnly", JBool(FALSE)),
                           frequency       |-> JGet(data, "frequency", JNull)])

RECURSIVE QuestionsFromApiSkipping(_)
\* The conversion leaving out the records that cannot be mapped (a variant
\* of the code)
QuestionsFromApiSkipping(questions_data) ==
    IF questions_data = <<>> THEN Return(<<>>)
    ELSE LET first == QuestionFromApiResponse(Head(questions_data))
             rest == QuestionsFromApiSkipping(Tail(questions_data))
         IN  IF first.raised THEN rest
             ELSE Return(<<first.value>> \o rest.value)

RECURSIVE QuestionsFromApi(_)
\* [Question.from_api_response(q) for q in questions_data]
QuestionsFromApi(questions_data) ==
    IF questions_data = <<>> THEN Return(<<>>)
    ELSE LET first == QuestionFromApiResponse(Head(questions_data))
         IN  IF first.raised THEN first
             ELSE LET rest == QuestionsFromApi(Tail(questions_data))
                  IN  IF rest.raised THEN rest
                      ELSE Return(<<first.value>> \o rest.value)

---------------------------------------------------------------------------
(* api.py: the three calls.  Each yields what _make_request yields, with   *)
(* the outcome of the whole call.  The decoded body is a JSON object.      *)

\* "except Exception as e: raise LeetCodeAPIError(f'Unexpected error ...: {e}')"
Unexpected(kind, e) == Raise(APIError(kind, <<e.text>>))

\* check_session after _make_request returned data
CheckSessionData(data) ==
    LET d == JGet(data, "data", JEmptyObj)
    IN  IF d.t # "obj" THEN Unexpected("UnexpectedCheckSession", AttributeErrorGet)
        ELSE LET user_data == JGet(d, "user", JNull)
             IN  IF ~JTruthy(user_data)
                 THEN Raise(APIError("SessionInvalid", <<>>))
                 ELSE LET info == UserInfoFromApiResponse(user_data)
                      IN  IF info.raised
                          THEN Unexpected("UnexpectedCheckSession", info.exc)
                          ELSE info

\* LeetCodeAPI.check_session
CheckSession(token, answer, dec) ==
    LET r == MakeRequest(token, "USER_INFO", EmptyDict, answer, dec)
    IN  IF r.out.raised THEN r
        ELSE [r EXCEPT !.out = CheckSessionData(r.out.value)]

\* fetch_questions after _make_request returned data: "Parse response" and
\* "Convert to Question objects"
FetchQuestionsData(data) ==
    LET d == JGet(data, "data", JEmptyObj)
    IN  IF d.t # "obj" THEN Unexpected("UnexpectedFetch", AttributeErrorGet)
        ELSE LET problem_data == JGet(d, "problemsetQuestionListV2", JEmptyObj)
             IN  IF problem_data.t # "obj"
                 THEN Unexpected("UnexpectedFetch", AttributeErrorGet)
                 ELSE LET questions_data == JGet(problem_data, "questions", JList(<<>>))
                      IN  IF questions_data.t # "list"
                          THEN Unexpected("UnexpectedFetch", NotIterable)
                          ELSE LET questions == QuestionsFromApi(questions_data.v)
                               IN  IF questions.raised
                                   THEN Unexpected("UnexpectedFetch", questions.exc)
                                   ELSE questions

\* LeetCodeAPI.fetch_questions
FetchQuestions(token, f, answer, dec) ==
    IF StatusRejected(f)
    THEN [posted  |-> FALSE,
          request |-> NoRequest,
          out     |-> Raise(APIError("InvalidStatus", <<f.status>>))]
    ELSE LET r == MakeRequest(token, "PROBLEM_LIST", BuildVariables(f), answer, dec)
         IN  IF r.out.raised THEN r
             ELSE [r EXCEPT !.out = FetchQuestionsData(r.out.value)]

\* QuestionFilter(...) with the defaults of the dataclass
QuestionFilter(status, difficulty, search_keyword, limit, skip, include_paid) ==
    [status |-> status, difficulty |-> difficulty, search_keyword |-> search_keyword,
     limit |-> limit, skip |-> skip, include_paid |-> include_paid]

DefaultFilter == QuestionFilter(None, None, None, DefaultLimit, 0, TRUE)

\* The filter LeetCodeAPI.search_questions builds
SearchFilter(keyword, limit) ==
    [DefaultFilter EXCEPT !.search_keyword = keyword, !.limit = limit]

\* LeetCodeAPI.search_questions
SearchQuestions(token, keyword, limit, answer, dec) ==
    FetchQuestions(token, SearchFilter(keyword, limit), answer, dec)

---------------------------------------------------------------------------
(* The inputs *)

MaxPosts == 2

\* Every way of writing word in upper and lower case
CaseVariants(word) ==
    {[i \in DOMAIN word |-> IF up[i] THEN UpperChar(word[i]) ELSE word[i]] :
        up \in [DOMAIN word -> BOOLEAN]}

StatusAliases == {w_solved, w_attempted, w_todo, w_to_do, w_to_dash_do}

DifficultyAliases == {w_easy, w_medium, w_hard}

\* Values that are in neither alias table
OtherRawValues ==
    {<<"e","x","t","r","e","m","e">>, <<"s","o","l","v","e">>, <<"s","o","l","v","e","d"," ">>, <<" ","e","a","s","y">>, <<"t","o"," ","d","o">>, <<"t","o","d","o","s">>,
     <<"x">>, <<" ">>, <<"h","a","r","d","e","r">>, <<"M","E","D","I","U","M","S">>}

\* The values --status and --difficulty can be given
RawValues ==
    {None, EmptyStr}
    \cup UNION {CaseVariants(w) : w \in StatusAliases \cup DifficultyAliases}
    \cup OtherRawValues

\* The filters given to the query builder
Filters ==
    {QuestionFilter(st, di, kw, li, sk, ip) :
        st \in {None, EmptyStr, SOLVED, ATTEMPTED, TO_DO, w_solved},
        di \in {None, EmptyStr, Easy, Medium, Hard, <<"e","x","t","r","e","m","e">>},
        kw \in {None, EmptyStr, <<"t","w","o">>},
        li \in {-1, 0, DefaultLimit} \cup 1..MaxLimit,
        sk \in {-1} \cup 0..MaxSkip,
        ip \in BOOLEAN}

\* The filters given to fetch_questions in Spec: the default one, one with
\* every part set, and one whose status is not a QuestionStatus
ApiFilters ==
    {DefaultFilter,
     QuestionFilter(SOLVED, Easy, <<"t","w","o">>, 1, 0, FALSE),
     [DefaultFilter EXCEPT !.status = w_solved]}

SearchKeywords == {<<"t","w","o">>}

m1 == <<"b","a","d">>

m2 == <<"w","o","r","s","e">>

NoPart == [k \in {} |-> JNull]

ErrorsParts ==
    {NoPart,
     "errors" :> JList(<<>>),
     "errors" :> JList(<<JObj("message" :> JStr(m1))>>),
     "errors" :> JList(<<JObj("message" :> JStr(m1)), JEmptyObj,
                        JObj("message" :> JStr(m2))>>)}

Submission(difficulty, count) ==
    JObj(("difficulty" :> JStr(difficulty)) @@ ("count" :> JNum(count)))

u_full ==
    JObj(("username" :> JStr(<<"u","1">>))
         @@ ("submitStats" :> JObj("acSubmissionNum" :>
                JList(<<Submission(<<"A","l","l">>, 3), Submission(Easy, 1),
                        Submission(Medium, 2)>>))))

u_nostats == JObj("username" :> JStr(<<"u","2">>))

u_nousername == JObj("submitStats" :> JObj("acSubmissionNum" :> JList(<<>>)))

q_full ==
    JObj(("questionFrontendId" :> JStr(<<"1">>))
         @@ ("title" :> JStr(<<"T","w","o"," ","S","u","m">>))
         @@ ("titleSlug" :> JStr(<<"t","w","o","-","s","u","m">>))
         @@ ("difficulty" :> JStr(Easy))
         @@ ("status" :> JStr(SOLVED))
         @@ ("topicTags" :> JList(<<JObj("name" :> JStr(<<"A","r","r","a","y">>)),
                                   JObj("name" :> JStr(<<"H","a","s","h">>))>>))
         @@ ("acRate" :> JNum(51))
         @@ ("paidOnly" :> JBool(TRUE))
         @@ ("frequency" :> JNum(8)))

q_min ==
    JObj(("questionFrontendId" :> JStr(<<"2">>))
         @@ ("title" :> JStr(<<"A","d","d">>))
         @@ ("titleSlug" :> JStr(<<"a","d","d">>))
         @@ ("difficulty" :> JStr(Medium)))

q_notitle ==
    JObj(("questionFrontendId" :> JStr(<<"3">>))
         @@ ("titleSlug" :> JStr(<<"a","d","d">>))
         @@ ("difficulty" :> JStr(Hard)))

ProblemList(questions) ==
    "data" :> JObj("problemsetQuestionListV2" :> JObj("questions" :> JList(questions)))

DataParts ==
    {NoPart,
     "data" :> JNull,
     "data" :> JEmptyObj,
     "data" :> JObj("user" :> JNull),
     "data" :> JObj("user" :> JEmptyObj),
     "data" :> JObj("user" :> u_full),
     "data" :> JObj("user" :> u_nostats),
     "data" :> JObj("user" :> u_nousername),
     "data" :> JObj("problemsetQuestionListV2" :> JNull),
     ProblemList(<<>>),
     ProblemList(<<q_full, q_min>>),
     ProblemList(<<q_min, q_notitle>>)}

\* The decoded bodies: every data part without an errors key, and every
\* errors key with no data and with a user
Docs ==
    {JObj(d @@ e) : d \in DataParts, e \in {NoPart}}
    \cup {JObj(d @@ e) : d \in {NoPart, "data" :> JObj("user" :> u_full)},
                        e \in ErrorsParts}

\* Bodies that are not JSON; json.loads fails on each at its first character
BadTexts == {EmptyStr, <<"<","h","t","m","l",">">>}

StatusCodes == {StatusOK, 403}

Answers ==
    {NetFailure(<<"t","i","m","e","d"," ","o","u","t">>)}
    \cup {HttpResponse(StatusOK, Json(doc)) : doc \in Docs}
    \cup {HttpResponse(403, Json(JObj(e))) : e \in ErrorsParts}
    \cup {HttpResponse(c, NotJson(text)) : c \in StatusCodes, text \in BadTexts}

\* The answers given to fetch_questions in SpecQuery
QueryAnswers ==
    {NetFailure(<<"t","i","m","e","d"," ","o","u","t">>), HttpResponse(StatusOK, Json(JObj(ProblemList(<<q_min>>))))}

NoAnswer == [none |-> TRUE]

---------------------------------------------------------------------------
(* The state machine *)

NotCalled == [op |-> "init", out |-> Return(None)]

NormIdle == [fn |-> "pending", raw |-> None, out |-> Return(None)]

\* A mapper call: kind names the mapper ("question", "user"), fn its
\* progress, out and again the outcomes of the first and the second call on
\* raw, url and total what Question.url and format_user_info derive from
\* the first outcome.
MapCall(kind, fn, raw, out, again, url, total) ==
    [kind |-> kind, fn |-> fn, raw |-> raw, out |-> out, again |-> again,
     url |-> url, total |-> total]

\* No mapper call made
MapIdle == MapCall("none", "idle", JEmptyObj, Return(None), Return(None), None, 0)

\* Nothing rendered: what is printed or written before _format_questions
NoRender == [format |-> "none", questions |-> <<>>]

\* The arguments argparse yields; output is None or a path.  --verbose,
\* which copies the log to standard error, is not given.
Args(action, status, difficulty, search, limit, skip, exclude_paid, format, output, stats) ==
    [action |-> action, status |-> status, difficulty |-> difficulty,
     search |-> search, limit |-> limit, skip |-> skip,
     exclude_paid |-> exclude_paid, format |-> format, output |-> output,
     stats |-> stats]

\* The defaults of create_parser, for an action
DefaultArgs(action) ==
    Args(action, None, None, None, DefaultLimit, 0, FALSE, "table", None, FALSE)

\* An invocation about to call LeetCodeCLI.run: pc is its position ("start",
\* "loaded" once load_session succeeded, "done"), exit_code the process exit
\* code (-1 while it runs) and exit_via how it was set ("return" from run,
\* "sys.exit"), stdout and stderr what was printed on each stream, in order,
\* error the exception reported, printed the rendering printed on stdout,
\* file what became of the --output file, loads the calls of load_session.
CliStart(args) ==
    [pc |-> "start", args |-> args, exit_code |-> -1, exit_via |-> "none",
     stdout |-> <<>>, stderr |-> <<>>, error |-> NoExc, printed |-> NoRender,
     file |-> [state |-> "untouched", content |-> NoRender], loads |-> 0]

\* No invocation of the command line
CliIdle == [CliStart(DefaultArgs("check_session")) EXCEPT !.pc = "idle"]

\* What fetch_questions leaves in its local variables
FetchVariables(f) == IF StatusRejected(f) THEN EmptyDict ELSE BuildVariables(f)

\* The effect of a call that posts again after a network error (a variant
\* of the code)
ApiEffectRetrying(op, r, answer) ==
    /\ result' = [op |-> op, out |-> r.out]
    /\ request' = r.request
    /\ response' = IF r.posted THEN answer ELSE NoAnswer
    /\ posts' = IF r.posted
                THEN IF answer.failed THEN posts + 2 ELSE posts + 1
                ELSE posts

\* The effect of a call of LeetCodeAPI that yields r on the answer given
ApiEffect(op, r, answer) ==
    /\ result' = [op |-> op, out |-> r.out]
    /\ request' = r.request
    /\ response' = IF r.posted THEN answer ELSE NoAnswer
    /\ posts' = IF r.posted THEN posts + 1 ELSE posts

NormalizeStatusCall ==
    /\ norm.fn = "pending"
    /\ norm' = [fn |-> "status", raw |-> norm.raw, out |-> NormalizeStatus(norm.raw)]
    /\ UNCHANGED <<filter_criteria, variables, session_file, session_token,
                   decode_error, response, request, result, posts, mapped, cli>>

NormalizeDifficultyCall ==
    /\ norm.fn = "pending"
    /\ norm' = [fn |-> "difficulty", raw |-> norm.raw,
                out |-> NormalizeDifficulty(norm.raw)]
    /\ UNCHANGED <<filter_criteria, variables, session_file, session_token,
                   decode_error, response, request, result, posts, mapped, cli>>

LoadSessionCall ==
    \E read_fails \in BOOLEAN :
        LET r == LoadSession(session_file, session_token, read_fails)
        IN  /\ session_token' = r.token
            /\ result' = [op |-> "load_session", out |-> Return(r.ok)]
            /\ response' = NoAnswer
            /\ request' = NoRequest
            /\ filter_criteria' = DefaultFilter
            /\ variables' = EmptyDict
            /\ UNCHANGED <<norm, session_file, decode_error, posts, mapped, cli>>

SaveSessionCall ==
    \E token \in Texts, fault \in SaveFaults :
        LET r == SaveSession(session_file, session_token, token, fault)
        IN  /\ session_token' = r.token
            /\ session_file' = r.file
            /\ result' = [op |-> "save_session", out |-> Return(r.ok)]
            /\ response' = NoAnswer
            /\ request' = NoRequest
            /\ filter_criteria' = DefaultFilter
            /\ variables' = EmptyDict
            /\ UNCHANGED <<norm, decode_error, posts, mapped, cli>>

\* check_session forgetting the token when the server says the session is
\* invalid (a variant of the code)
CheckSessionCallClearing ==
    /\ posts < MaxPosts
    /\ \E answer \in Answers :
           LET r == CheckSession(session_token, answer, decode_error)
           IN  /\ ApiEffect("check_session", r, answer)
               /\ session_token' = IF r.out.raised /\ r.out.exc.type = "LeetCodeAPIError"
                                       /\ r.out.exc.kind = "SessionInvalid"
                                    THEN None ELSE session_token
    /\ filter_criteria' = DefaultFilter
    /\ variables' = EmptyDict
    /\ UNCHANGED <<norm, session_file, decode_error, mapped, cli>>

CheckSessionCall ==
    /\ posts < MaxPosts
    /\ \E answer \in Answers :
           ApiEffect("check_session",
                     CheckSession(session_token, answer, decode_error), answer)
    /\ filter_criteria' = DefaultFilter
    /\ variables' = EmptyDict
    /\ UNCHANGED <<norm, session_file, session_token, decode_error, mapped, cli>>

FetchQuestionsStep(f, answer) ==
    /\ posts < MaxPosts
    /\ ApiEffect("fetch_questions",
                 FetchQuestions(session_token, f, answer, decode_error), answer)
    /\ filter_criteria' = f
    /\ variables' = FetchVariables(f)
    /\ UNCHANGED <<norm, session_file, session_token, decode_error, mapped, cli>>

FetchQuestionsCall ==
    \E f \in ApiFilters, answer \in Answers : FetchQuestionsStep(f, answer)

SearchQuestionsCall ==
    /\ posts < MaxPosts
    /\ \E keyword \in SearchKeywords, limit \in {DefaultLimit}, answer \in Answers :
           /\ ApiEffect("search_questions",
                        SearchQuestions(session_token, keyword, limit, answer,
                                        decode_error), answer)
           /\ filter_criteria' = SearchFilter(keyword, limit)
           /\ variables' = FetchVariables(SearchFilter(keyword, limit))
    /\ UNCHANGED <<norm, session_file, session_token, decode_error, mapped, cli>>

\* fetch_questions on the filter chosen initially, once
FetchWithFilter ==
    /\ result.op = "init"
    /\ \E answer \in QueryAnswers : FetchQuestionsStep(filter_criteria, answer)

\* A fresh SessionManager and LeetCodeAPI, on any session file
Init ==
    /\ norm = NormIdle
    /\ filter_criteria = DefaultFilter
    /\ variables = EmptyDict
    /\ session_file \in {NoFile} \cup Texts
    /\ session_token = None
    /\ decode_error \in DecodeErrorClasses
    /\ response = NoAnswer
    /\ request = NoRequest
    /\ result = NotCalled
    /\ posts = 0
    /\ mapped = MapIdle
    /\ cli = CliIdle

Next ==
    \/ LoadSessionCall
    \/ SaveSessionCall
    \/ CheckSessionCall
    \/ FetchQuestionsCall
    \/ SearchQuestionsCall

Spec == Init /\ [][Next]_vars

\* A raw command-line value, not yet normalised
InitFilter ==
    /\ norm \in {[fn |-> "pending", raw |-> raw, out |-> Return(None)] : raw \in RawValues}
    /\ filter_criteria = DefaultFilter
    /\ variables = EmptyDict
    /\ session_file = NoFile
    /\ session_token = None
    /\ decode_error = "JSONDecodeError"
    /\ response = NoAnswer
    /\ request = NoRequest
    /\ result = NotCalled
    /\ posts = 0
    /\ mapped = MapIdle
    /\ cli = CliIdle

NextFilter == NormalizeStatusCall \/ NormalizeDifficultyCall

SpecFilter == InitFilter /\ [][NextFilter]_vars

\* A LeetCodeAPI with a loaded session and a filter to fetch with
InitQuery ==
    /\ norm = NormIdle
    /\ filter_criteria \in Filters
    /\ variables = EmptyDict
    /\ session_file = <<"a">>
    /\ session_token = <<"a">>
    /\ decode_error = "JSONDecodeError"
    /\ response = NoAnswer
    /\ request = NoRequest
    /\ result = NotCalled
    /\ posts = 0
    /\ mapped = MapIdle
    /\ cli = CliIdle

NextQuery == FetchWithFilter

SpecQuery == InitQuery /\ [][NextQuery]_vars

---------------------------------------------------------------------------
(* models.py and formatters.py: what is derived from the mapped records *)

UrlPrefix == <<"h","t","t","p","s",":","/","/","l","e","e","t","c","o","d","e",".","c","o","m","/","p","r","o","b","l","e","m","s","/">>

\* Question.url, for a title_slug that is a string
QuestionUrl(q) == UrlPrefix \o q.title_slug.v

RECURSIVE SumCounts(_)
\* The loop of format_user_info over solved_counts.items(): total_solved,
\* for counts that are numbers
SumCounts(solved_counts) ==
    IF DOMAIN solved_counts = {} THEN 0
    ELSE LET difficulty == CHOOSE d \in DOMAIN solved_counts : TRUE
         IN  solved_counts[difficulty].v
             + SumCounts([d \in DOMAIN solved_counts \ {difficulty} |-> solved_counts[d]])

\* format_user_info: the user line, one line per key of solved_counts, and
\* the Total line, present when solved_counts is not empty
FormatUserInfo(user_info) ==
    [user      |-> user_info.username,
     solved    |-> user_info.solved_counts,
     has_total |-> DOMAIN user_info.solved_counts # {},
     total     |-> SumCounts(user_info.solved_counts)]

---------------------------------------------------------------------------
(* The raw records given to the mapper *)

MaxSubs == 2

MaxCount == 2

RequiredKeys == {"questionFrontendId", "title", "titleSlug", "difficulty"}

OptionalKeys == {"status", "topicTags", "acRate", "paidOnly", "frequency"}

\* A second complete record, whose optional fields hold the values the
\* defaults would give, but for the tags
q_other ==
    JObj(("questionFrontendId" :> JStr(<<"4">>))
         @@ ("title" :> JStr(<<"M","e","d","i","a","n">>))
         @@ ("titleSlug" :> JStr(<<"m","e","d","i","a","n">>))
         @@ ("difficulty" :> JStr(Hard))
         @@ ("status" :> JNull)
         @@ ("topicTags" :> JList(<<JObj("name" :> JStr(<<"H","a","s","h">>)),
                                   JObj("name" :> JStr(<<"A","r","r","a","y">>)),
                                   JObj("name" :> JStr(<<"H","a","s","h">>))>>))
         @@ ("acRate" :> JNum(0))
         @@ ("paidOnly" :> JBool(FALSE))
         @@ ("frequency" :> JNull))

\* The record with only the given keys
Restrict(obj, keys) == JObj([k \in keys |-> obj.v[k]])

\* Raw question records: two complete ones and every way of leaving fields out
QuestionRaws ==
    {Restrict(q, req \cup opt) :
        q \in {q_full, q_other}, req \in SUBSET RequiredKeys, opt \in SUBSET OptionalKeys}

All == <<"A","l","l">>

DifficultyLabels == {All, Easy, Medium, Hard}

\* The acSubmissionNum lists: any labels, in any order, repeated or not
SubmissionLists ==
    UNION {[1..n -> {Submission(d, c) : d \in DifficultyLabels, c \in 0..MaxCount}] :
              n \in 0..MaxSubs}

UserWith(submissions) ==
    JObj(("username" :> JStr(<<"u","1">>))
         @@ ("submitStats" :> JObj("acSubmissionNum" :> JList(submissions))))

\* Raw user records
UserRaws == {UserWith(l) : l \in SubmissionLists} \cup {u_nostats, u_nousername}

---------------------------------------------------------------------------
(* The mapper, called twice on a raw record *)

MapQuestionCall ==
    /\ mapped.kind = "question"
    /\ mapped.fn = "pending"
    /\ LET out == QuestionFromApiResponse(mapped.raw)
       IN  mapped' = MapCall("question", "mapped", mapped.raw, out, Return(None),
                             IF out.raised THEN None ELSE QuestionUrl(out.value), 0)
    /\ UNCHANGED <<norm, filter_criteria, variables, session_file, session_token,
                   decode_error, response, request, result, posts, cli>>

MapUserCall ==
    /\ mapped.kind = "user"
    /\ mapped.fn = "pending"
    /\ LET out == UserInfoFromApiResponse(mapped.raw)
       IN  mapped' = MapCall("user", "mapped", mapped.raw, out, Return(None), None,
                             IF out.raised THEN 0 ELSE FormatUserInfo(out.value).total)
    /\ UNCHANGED <<norm, filter_criteria, variables, session_file, session_token,
                   decode_error, response, request, result, posts, cli>>

MapAgainCall ==
    /\ mapped.fn = "mapped"
    /\ mapped' = [mapped EXCEPT
                      !.fn = "again",
                      !.again = IF mapped.kind = "question"
                                THEN QuestionFromApiResponse(mapped.raw)
                                ELSE UserInfoFromApiResponse(mapped.raw)]
    /\ UNCHANGED <<norm, filter_criteria, variables, session_file, session_token,
                   decode_error, response, request, result, posts, cli>>

\* A raw record, not yet mapped
InitMapper ==
    /\ norm = NormIdle
    /\ filter_criteria = DefaultFilter
    /\ variables = EmptyDict
    /\ session_file = NoFile
    /\ session_token = None
    /\ decode_error = "JSONDecodeError"
    /\ response = NoAnswer
    /\ request = NoRequest
    /\ result = NotCalled
    /\ posts = 0
    /\ mapped \in {MapCall("question", "pending", raw, Return(None), Return(None), None, 0) :
                       raw \in QuestionRaws}
                  \cup {MapCall("user", "pending", raw, Return(None), Return(None), None, 0) :
                           raw \in UserRaws}
    /\ cli = CliIdle

NextMapper == MapQuestionCall \/ MapUserCall \/ MapAgainCall

SpecMapper == InitMapper /\ [][NextMapper]_vars

---------------------------------------------------------------------------
(* cli.py and formatters.py: the actions of the command line *)

\* _build_filter_criteria validating the difficulty but handing on the value
\* as it was given (a variant of the code)
BuildFilterCriteriaRawDifficulty(args) ==
    LET normalized_status == NormalizeStatus(args.status)
        normalized_difficulty == NormalizeDifficulty(args.difficulty)
    IN  IF normalized_status.raised THEN normalized_status
        ELSE IF normalized_difficulty.raised THEN normalized_difficulty
        ELSE Return(QuestionFilter(normalized_status.value, args.difficulty,
                                   args.search, args.limit, args.skip,
                                   ~args.exclude_paid))

\* LeetCodeCLI._build_filter_criteria up to "except ValueError": the filter,
\* or the ValueError of the first normaliser that rejects its value
BuildFilterCriteria(args) ==
    LET normalized_status == NormalizeStatus(args.status)
        normalized_difficulty == NormalizeDifficulty(args.difficulty)
    IN  IF normalized_status.raised THEN normalized_status
        ELSE IF normalized_difficulty.raised THEN normalized_difficulty
        ELSE Return(QuestionFilter(normalized_status.value, normalized_difficulty.value,
                                   args.search, args.limit, args.skip,
                                   ~args.exclude_paid))

FormatError == PyExc("TypeError", <<"u","n","s","u","p","p","o","r","t","e","d"," ","f","o","r","m","a","t"," ","s","t","r","i","n","g">>)

\* LeetCodeCLI._format_questions on a non-empty list: the text of the chosen
\* formatter, kept as the format and the questions it renders.  The table,
\* summary and wide formatters format acceptance_rate with ":.1f", which
\* raises TypeError on None; json and csv write it as it is.
FormatQuestions(format, questions) ==
    IF /\ format \in {"table", "summary", "wide"}
       /\ \E i \in DOMAIN questions : questions[i].acceptance_rate.t = "null"
    THEN Raise(FormatError)
    ELSE Return([format |-> format, questions |-> questions])

\* How an invocation ends: the fields of cli it sets
Ends(exit_code, exit_via, stdout, stderr, error, printed, file) ==
    [exit_code |-> exit_code, exit_via |-> exit_via, stdout |-> stdout,
     stderr |-> stderr, error |-> error, printed |-> printed, file |-> file]

Untouched == [state |-> "untouched", content |-> NoRender]

\* "except LeetCodeAPIError as e: print(..., file=sys.stderr); return 1"
Fails(message, e) == Ends(1, "return", <<>>, <<message>>, e, NoRender, Untouched)

\* run, "except Exception as e": an exception no action catches
UnexpectedError(e) == Fails("Unexpected error", e)

\* The message load_session prints, on standard output, when it fails
LoadSessionMessage(file, read_fails) ==
    IF file = NoFile THEN "Session file not found"
    ELSE IF read_fails THEN "Error reading session file"
    ELSE "Session file is empty"

\* LeetCodeCLI.check_session after load_session, on the outcome of
\* api.check_session
CheckSessionEnds(out) ==
    IF out.raised THEN Fails("Session check failed", out.exc)
    ELSE Ends(0, "return", <<"user info">>, <<>>, NoExc, NoRender, Untouched)

\* LeetCodeCLI.show_questions after _build_filter_criteria, on the outcome
\* of api.fetch_questions
ShowQuestionsEnds(args, out) ==
    IF out.raised THEN Fails("Failed to fetch questions", out.exc)
    ELSE IF out.value = <<>>
    THEN Ends(0, "return", <<"No questions found">>, <<>>, NoExc, NoRender, Untouched)
    ELSE LET output == FormatQuestions(args.format, out.value)
         IN  IF output.raised THEN UnexpectedError(output.exc)
             ELSE Ends(0, "return",
                       IF args.stats THEN <<"questions", "statistics">> ELSE <<"questions">>,
                       <<>>, NoExc, output.value, Untouched)

\* LeetCodeCLI.search_questions after the test of the keyword, on the
\* outcome of api.search_questions
SearchQuestionsEnds(args, out) ==
    IF out.raised THEN Fails("Search failed", out.exc)
    ELSE IF out.value = <<>>
    THEN Ends(0, "return", <<"No questions found">>, <<>>, NoExc, NoRender, Untouched)
    ELSE LET output == FormatQuestions(args.format, out.value)
         IN  IF output.raised THEN UnexpectedError(output.exc)
             ELSE Ends(0, "return", <<"questions">>, <<>>, NoExc, output.value, Untouched)

IOErrorOf(fault) == PyExc("IOError", <<fault>>)

\* LeetCodeCLI.export_questions after _build_filter_criteria, on the outcome
\* of api.fetch_questions.  fault: "none", "open" (open() raises, the file is
\* untouched) or "write" (open() has truncated the file and write() raises).
ExportQuestionsEnds(args, out, fault) ==
    IF out.raised THEN Fails("Export failed", out.exc)
    ELSE IF out.value = <<>>
    THEN Ends(0, "return", <<"No questions found">>, <<>>, NoExc, NoRender, Untouched)
    ELSE LET output == FormatQuestions(args.format, out.value)
         IN  IF output.raised THEN UnexpectedError(output.exc)
             ELSE IF ~Truthy(args.output)
             THEN Ends(0, "return", <<"questions">>, <<>>, NoExc, output.value, Untouched)
             ELSE CASE fault = "none" ->
                           Ends(0, "return", <<"Questions exported to">>, <<>>, NoExc, NoRender,
                                [state |-> "written", content |-> output.value])
                    [] fault = "open" ->
                           Ends(1, "return", <<>>, <<"Failed to write output file">>,
                                IOErrorOf(fault), NoRender, Untouched)
                    [] fault = "write" ->
                           Ends(1, "return", <<>>, <<"Failed to write output file">>,
                                IOErrorOf(fault), NoRender,
                                [state |-> "truncated", content |-> NoRender])

KeyboardInterrupt == PyExc("KeyboardInterrupt", <<>>)

\* run, "except KeyboardInterrupt": the report and "return 1", after stdout
\* and printed were produced
Cancelled(stdout, printed) ==
    Ends(1, "return", stdout, <<"Operation cancelled by user">>, KeyboardInterrupt,
         printed, Untouched)

\* _build_filter_criteria, "except ValueError as e": the report and sys.exit(1)
InvalidArgument(e) ==
    Ends(1, "sys.exit", <<>>, <<"Invalid argument">>, e, NoRender, Untouched)

---------------------------------------------------------------------------
(* One invocation of the command line: main, LeetCodeCLI.run *)

Actions == {"check_session", "show_questions", "search", "export"}

Formats == {"table", "summary", "wide", "json", "csv"}

s_two == <<"t","w","o">>

\* The values given to --limit and --skip: argparse takes any integer
Limits == {-1, 0, DefaultLimit} \cup 1..MaxLimit

Skips == {-1} \cup 0..MaxSkip

\* The command lines: every action with every pair of a status and a
\* difficulty (absent, an alias, outside the table), with and without a
\* keyword; with every limit, skip and --exclude-paid; with every format,
\* with and without --output and --stats
CommandLines ==
    {[DefaultArgs(a) EXCEPT !.status = st, !.difficulty = di, !.search = kw] :
        a \in Actions,
        st \in {None, <<"S","o","l","v","e","d">>, <<"s","o","l","v","e">>},
        di \in {None, w_easy, <<"e","x","t","r","e","m","e">>},
        kw \in {None, s_two}}
    \cup {[DefaultArgs(a) EXCEPT !.search = s_two, !.limit = li, !.skip = sk,
                                 !.exclude_paid = ex] :
             a \in Actions, li \in Limits, sk \in Skips, ex \in BOOLEAN}
    \cup {[DefaultArgs(a) EXCEPT !.search = s_two, !.format = fo, !.output = ou,
                                 !.stats = st] :
             a \in Actions, fo \in Formats,
             ou \in {None, <<"o","u","t",".","t","x","t">>}, st \in BOOLEAN}

\* A question whose acRate is null
q_norate ==
    JObj(("questionFrontendId" :> JStr(<<"5">>))
         @@ ("title" :> JStr(<<"A","d","d">>))
         @@ ("titleSlug" :> JStr(<<"a","d","d">>))
         @@ ("difficulty" :> JStr(Easy))
         @@ ("acRate" :> JNull))

\* The answers of the network to an invocation
CliAnswers ==
    {NetFailure(<<"t","i","m","e","d"," ","o","u","t">>),
     HttpResponse(StatusOK, Json(JObj("data" :> JObj("user" :> u_full)))),
     HttpResponse(StatusOK, Json(JObj("data" :> JObj("user" :> JNull)))),
     HttpResponse(StatusOK, Json(JObj(ProblemList(<<>>)))),
     HttpResponse(StatusOK, Json(JObj(ProblemList(<<q_full, q_min>>)))),
     HttpResponse(StatusOK, Json(JObj(ProblemList(<<q_min, q_norate>>)))),
     HttpResponse(StatusOK, Json(JObj(ProblemList(<<q_min, q_notitle>>)))),
     HttpResponse(StatusOK, Json(JObj("errors" :> JList(<<JObj("message" :> JStr(m1))>>)))),
     HttpResponse(403, Json(JEmptyObj)),
     HttpResponse(StatusOK, NotJson(<<"<","h","t","m","l",">">>))}

\* The invocation ends as e says
CliEnds(e) ==
    cli' = [cli EXCEPT !.pc = "done", !.exit_code = e.exit_code,
                       !.exit_via = e.exit_via,
                       !.stdout = cli.stdout \o e.stdout,
                       !.stderr = cli.stderr \o e.stderr,
                       !.error = e.error, !.printed = e.printed, !.file = e.file]

\* run loading the session for every action, check_session included, which
\* loads it again itself (a variant of the code)
CliLoadSessionInRunToo ==
    /\ cli.pc = "start"
    /\ \E read_fails \in BOOLEAN :
           LET r == LoadSession(session_file, session_token, read_fails)
               calls == IF r.ok /\ cli.args.action = "check_session" THEN 2 ELSE 1
           IN  /\ session_token' = r.token
               /\ result' = [op |-> "load_session", out |-> Return(r.ok)]
               /\ cli' = IF r.ok
                         THEN [cli EXCEPT !.pc = "loaded", !.loads = @ + calls]
                         ELSE [cli EXCEPT !.pc = "done", !.loads = @ + calls,
                                          !.exit_code = 1, !.exit_via = "return",
                                          !.stdout = <<LoadSessionMessage(session_file,
                                                                          read_fails)>>]
    /\ UNCHANGED <<norm, filter_criteria, variables, session_file, decode_error,
                   response, request, posts, mapped>>

\* run, "Load session for most actions", and for check_session the
\* load_session at the head of LeetCodeCLI.check_session: on a failure the
\* invocation returns 1 with what load_session printed
CliLoadSession ==
    /\ cli.pc = "start"
    /\ \E read_fails \in BOOLEAN :
           LET r == LoadSession(session_file, session_token, read_fails)
           IN  /\ session_token' = r.token
               /\ result' = [op |-> "load_session", out |-> Return(r.ok)]
               /\ cli' = IF r.ok
                         THEN [cli EXCEPT !.pc = "loaded", !.loads = @ + 1]
                         ELSE [cli EXCEPT !.pc = "done", !.loads = @ + 1,
                                          !.exit_code = 1, !.exit_via = "return",
                                          !.stdout = <<LoadSessionMessage(session_file,
                                                                          read_fails)>>]
    /\ UNCHANGED <<norm, filter_criteria, variables, session_file, decode_error,
                   response, request, posts, mapped>>

\* LeetCodeCLI.check_session after load_session
CliCheckSession ==
    /\ cli.pc = "loaded"
    /\ cli.args.action = "check_session"
    /\ \E answer \in CliAnswers :
           LET r == CheckSession(session_token, answer, decode_error)
           IN  /\ ApiEffect("check_session", r, answer)
               /\ CliEnds(CheckSessionEnds(r.out))
    /\ UNCHANGED <<norm, filter_criteria, variables, session_file, session_token,
                   decode_error, mapped>>

\* LeetCodeCLI.show_questions
CliShowQuestions ==
    /\ cli.pc = "loaded"
    /\ cli.args.action = "show_questions"
    /\ LET built == BuildFilterCriteria(cli.args)
       IN  \/ /\ built.raised
              /\ CliEnds(InvalidArgument(built.exc))
              /\ UNCHANGED <<filter_criteria, variables, response, request, result, posts>>
           \/ /\ ~built.raised
              /\ \E answer \in CliAnswers :
                     LET r == FetchQuestions(session_token, built.value, answer, decode_error)
                     IN  /\ ApiEffect("fetch_questions", r, answer)
                         /\ CliEnds(ShowQuestionsEnds(cli.args, r.out))
              /\ filter_criteria' = built.value
              /\ variables' = FetchVariables(built.value)
    /\ UNCHANGED <<norm, session_file, session_token, decode_error, mapped>>

\* search_questions fetching with the filter of _build_filter_criteria, as
\* show_questions does (a variant of the code)
CliSearchQuestionsFiltered ==
    /\ cli.pc = "loaded"
    /\ cli.args.action = "search"
    /\ LET built == BuildFilterCriteria(cli.args)
       IN  \/ /\ ~Truthy(cli.args.search)
              /\ CliEnds(Fails("Search keyword is required", NoExc))
              /\ UNCHANGED <<filter_criteria, variables, response, request, result, posts>>
           \/ /\ Truthy(cli.args.search)
              /\ built.raised
              /\ CliEnds(InvalidArgument(built.exc))
              /\ UNCHANGED <<filter_criteria, variables, response, request, result, posts>>
           \/ /\ Truthy(cli.args.search)
              /\ ~built.raised
              /\ \E answer \in CliAnswers :
                     LET r == FetchQuestions(session_token, built.value, answer, decode_error)
                     IN  /\ ApiEffect("search_questions", r, answer)
                         /\ CliEnds(SearchQuestionsEnds(cli.args, r.out))
              /\ filter_criteria' = built.value
              /\ variables' = FetchVariables(built.value)
    /\ UNCHANGED <<norm, session_file, session_token, decode_error, mapped>>

\* LeetCodeCLI.search_questions
CliSearchQuestions ==
    /\ cli.pc = "loaded"
    /\ cli.args.action = "search"
    /\ \/ /\ ~Truthy(cli.args.search)
          /\ CliEnds(Fails("Search keyword is required", NoExc))
          /\ UNCHANGED <<filter_criteria, variables, response, request, result, posts>>
       \/ /\ Truthy(cli.args.search)
          /\ \E answer \in CliAnswers :
                 LET r == SearchQuestions(session_token, cli.args.search, cli.args.limit,
                                          answer, decode_error)
                 IN  /\ ApiEffect("search_questions", r, answer)
                     /\ CliEnds(SearchQuestionsEnds(cli.args, r.out))
          /\ filter_criteria' = SearchFilter(cli.args.search, cli.args.limit)
          /\ variables' = FetchVariables(SearchFilter(cli.args.search, cli.args.limit))
    /\ UNCHANGED <<norm, session_file, session_token, decode_error, mapped>>

\* LeetCodeCLI.export_questions
CliExportQuestions ==
    /\ cli.pc = "loaded"
    /\ cli.args.action = "export"
    /\ LET built == BuildFilterCriteria(cli.args)
       IN  \/ /\ built.raised
              /\ CliEnds(InvalidArgument(built.exc))
              /\ UNCHANGED <<filter_criteria, variables, response, request, result, posts>>
           \/ /\ ~built.raised
              /\ \E answer \in CliAnswers, fault \in SaveFaults :
                     LET r == FetchQuestions(session_token, built.value, answer, decode_error)
                     IN  /\ ApiEffect("fetch_questions", r, answer)
                         /\ CliEnds(ExportQuestionsEnds(cli.args, r.out, fault))
              /\ filter_criteria' = built.value
              /\ variables' = FetchVariables(built.value)
    /\ UNCHANGED <<norm, session_file, session_token, decode_error, mapped>>

\* The interrupt signal arrives while load_session runs: load_session
\* catches Exception only, so KeyboardInterrupt reaches run
CliInterruptLoad ==
    /\ cli.pc = "start"
    /\ cli' = [cli EXCEPT !.pc = "done", !.loads = @ + 1, !.exit_code = 1,
                          !.exit_via = "return",
                          !.stderr = <<"Operation cancelled by user">>,
                          !.error = KeyboardInterrupt]
    /\ UNCHANGED <<norm, filter_criteria, variables, session_file, session_token,
                   decode_error, response, request, result, posts, mapped>>

\* The interrupt signal arrives once the session is loaded, before the
\* action has read an answer of the server
CliInterruptRequest ==
    /\ cli.pc = "loaded"
    /\ CliEnds(Cancelled(<<>>, NoRender))
    /\ UNCHANGED <<norm, filter_criteria, variables, session_file, session_token,
                   decode_error, response, request, result, posts, mapped>>

\* The interrupt signal arrives in show_questions --stats after
\* _write_output(output), while format_statistics runs
CliInterruptStatistics ==
    /\ cli.pc = "loaded"
    /\ cli.args.action = "show_questions"
    /\ cli.args.stats
    /\ LET built == BuildFilterCriteria(cli.args)
       IN  /\ ~built.raised
           /\ \E answer \in CliAnswers :
                  LET r == FetchQuestions(session_token, built.value, answer, decode_error)
                      output == FormatQuestions(cli.args.format, r.out.value)
                  IN  /\ ~r.out.raised
                      /\ r.out.value # <<>>
                      /\ ~output.raised
                      /\ ApiEffect("fetch_questions", r, answer)
                      /\ CliEnds(Cancelled(<<"questions">>, output.value))
           /\ filter_criteria' = built.value
           /\ variables' = FetchVariables(built.value)
    /\ UNCHANGED <<norm, session_file, session_token, decode_error, mapped>>

\* A fresh process: parsed arguments, a new SessionManager and LeetCodeAPI
InitCli ==
    /\ norm = NormIdle
    /\ filter_criteria = DefaultFilter
    /\ variables = EmptyDict
    /\ session_file \in {NoFile} \cup Texts
    /\ session_token = None
    /\ decode_error \in DecodeErrorClasses
    /\ response = NoAnswer
    /\ request = NoRequest
    /\ result = NotCalled
    /\ posts = 0
    /\ mapped = MapIdle
    /\ cli \in {CliStart(args) : args \in CommandLines}

NextCli ==
    \/ CliLoadSession
    \/ CliCheckSession
    \/ CliShowQuestions
    \/ CliSearchQuestions
    \/ CliExportQuestions
    \/ CliInterruptLoad
    \/ CliInterruptRequest
    \/ CliInterruptStatistics

SpecCli == InitCli /\ [][NextCli]_vars

---------------------------------------------------------------------------
(* session.py: SessionManager objects sharing one session file *)

MaxSavedLen == 2

\* The tokens given to save_session
SavedTexts == UNION {[1..n -> TokenChars] : n \in 0..MaxSavedLen}

\* A call of a SessionManager: arg is the token given to save_session (None
\* for load_session), fault what the file system did ("none", "open",
\* "write", "read"), fresh whether the call is the first of a new
\* SessionManager on the same file.
SessionCall(op, ok, arg, fault, fresh) ==
    [op |-> op, out |-> Return(ok), arg |-> arg, fault |-> fault, fresh |-> fresh]

\* save_session(token) on the current SessionManager
SessionSaveCall ==
    /\ \E token \in SavedTexts, fault \in SaveFaults :
           LET r == SaveSession(session_file, session_token, token, fault)
           IN  /\ session_token' = r.token
               /\ session_file' = r.file
               /\ result' = SessionCall("save_session", r.ok, token, fault, FALSE)
    /\ UNCHANGED <<norm, filter_criteria, variables, decode_error, response,
                   request, posts, mapped, cli>>

\* load_session() on the current SessionManager, or on a new one (whose
\* session_token is None, SessionManager.__init__) that replaces it
SessionLoadCall ==
    /\ \E read_fails \in BOOLEAN, fresh \in BOOLEAN :
           LET before == IF fresh THEN None ELSE session_token
               r == LoadSession(session_file, before, read_fails)
           IN  /\ session_token' = r.token
               /\ result' = SessionCall("load_session", r.ok, None,
                                        IF read_fails THEN "read" ELSE "none", fresh)
    /\ UNCHANGED <<norm, filter_criteria, variables, session_file, decode_error,
                   response, request, posts, mapped, cli>>

\* A new SessionManager, on any session file
InitSession ==
    /\ norm = NormIdle
    /\ filter_criteria = DefaultFilter
    /\ variables = EmptyDict
    /\ session_file \in {NoFile} \cup SavedTexts
    /\ session_token = None
    /\ decode_error = "JSONDecodeError"
    /\ response = NoAnswer
    /\ request = NoRequest
    /\ result = NotCalled
    /\ posts = 0
    /\ mapped = MapIdle
    /\ cli = CliIdle

NextSession == SessionSaveCall \/ SessionLoadCall

SpecSession == InitSession /\ [][NextSession]_vars

---------------------------------------------------------------------------
(* Properties *)

Range(seq) == {seq[i] : i \in DOMAIN seq}

ApiOps == {"check_session", "fetch_questions", "search_questions"}

C3_FilterKeys ==
    (result.op = "fetch_questions" /\ variables # EmptyDict) =>
        LET f == filter_criteria
            filters == variables["filters"]
        IN  /\ ("statusFilter" \in DOMAIN filters)
                   <=> (f.status # None /\ f.status # <<>>)
            /\ ("difficultyFilter" \in DOMAIN filters)
                   <=> (f.difficulty # None /\ f.difficulty # <<>>)
            /\ ("paidOnlyFilter" \in DOMAIN filters) <=> (f.include_paid = FALSE)
            /\ "statusFilter" \in DOMAIN filters
                   => /\ filters["statusFilter"].questionStatuses # <<>>
                      /\ None \notin Range(filters["statusFilter"].questionStatuses)
            /\ "difficultyFilter" \in DOMAIN filters
                   => /\ filters["difficultyFilter"].difficulties # <<>>
                      /\ None \notin Range(filters["difficultyFilter"].difficulties)
            /\ DOMAIN filters \subseteq
                   {"filterCombineType", "statusFilter", "difficultyFilter",
                    "paidOnlyFilter"}

\* A request built from a filter with a status, no difficulty and paid
\* questions included: only statusFilter is there
C3_Witness ==
    /\ result.op = "fetch_questions"
    /\ filter_criteria.status = SOLVED
    /\ filter_criteria.difficulty = None
    /\ filter_criteria.include_paid
    /\ variables # EmptyDict
    /\ DOMAIN variables["filters"] = {"filterCombineType", "statusFilter"}
    /\ posts = 1

\* C4: the variables fetch_questions builds always hold limit and skip as
\* the filter gives them, sortBy = {sortField: CUSTOM, sortOrder: ASCENDING}
\* and filters with filterCombineType = ALL; searchKeyword is there, equal
\* to the filter's keyword, exactly when that keyword is not empty.
C4_Variables ==
    (result.op = "fetch_questions" /\ variables # EmptyDict) =>
        LET f == filter_criteria
        IN  /\ {"limit", "skip", "sortBy", "filters"} \subseteq DOMAIN variables
            /\ variables["limit"] = f.limit
            /\ variables["skip"] = f.skip
            /\ variables["sortBy"] = [sortField |-> "CUSTOM", sortOrder |-> "ASCENDING"]
            /\ "filterCombineType" \in DOMAIN variables["filters"]
            /\ variables["filters"]["filterCombineType"] = "ALL"
            /\ ("searchKeyword" \in DOMAIN variables)
                   <=> (f.search_keyword # None /\ f.search_keyword # <<>>)
            /\ "searchKeyword" \in DOMAIN variables
                   => variables["searchKeyword"] = f.search_keyword
            /\ request # NoRequest => request.json["variables"] = variables

C4_Witness ==
    /\ result.op = "fetch_questions"
    /\ filter_criteria.search_keyword = <<"t","w","o">>
    /\ filter_criteria.limit = 2
    /\ filter_criteria.skip = 1
    /\ variables # EmptyDict
    /\ variables["searchKeyword"] = <<"t","w","o">>
    /\ variables["limit"] = 2
    /\ posts = 1

\* C5: a filter sub-object that fetch_questions emits has the prescribed
\* shape: statusFilter = {questionStatuses: [status], operator: IS},
\* difficultyFilter = {difficulties: [the difficulty in upper case],
\* operator: IS} (Easy is sent as EASY), paidOnlyFilter = {paidOnly: false,
\* operator: IS}.
C5_FilterShapes ==
    (result.op = "fetch_questions" /\ variables # EmptyDict) =>
        LET f == filter_criteria
            filters == variables["filters"]
        IN  /\ "statusFilter" \in DOMAIN filters
                   => filters["statusFilter"]
                          = [questionStatuses |-> <<f.status>>, operator |-> "IS"]
            /\ "difficultyFilter" \in DOMAIN filters
                   => /\ filters["difficultyFilter"].operator = "IS"
                      /\ Len(filters["difficultyFilter"].difficulties) = 1
                      /\ filters["difficultyFilter"].difficulties[1]
                             = StrUpper(f.difficulty)
                      /\ f.difficulty = Easy
                             => filters["difficultyFilter"].difficulties = <<<<"E","A","S","Y">>>>
                      /\ f.difficulty = Medium
                             => filters["difficultyFilter"].difficulties = <<<<"M","E","D","I","U","M">>>>
                      /\ f.difficulty = Hard
                             => filters["difficultyFilter"].difficulties = <<<<"H","A","R","D">>>>
                      /\ DOMAIN filters["difficultyFilter"] = {"difficulties", "operator"}
            /\ "paidOnlyFilter" \in DOMAIN filters
                   => filters["paidOnlyFilter"] = [paidOnly |-> FALSE, operator |-> "IS"]

C5_Witness ==
    /\ result.op = "fetch_questions"
    /\ filter_criteria.status = TO_DO
    /\ filter_criteria.difficulty = Easy
    /\ ~filter_criteria.include_paid
    /\ variables # EmptyDict
    /\ variables["filters"]["difficultyFilter"].difficulties = <<<<"E","A","S","Y">>>>
    /\ variables["filters"]["statusFilter"].questionStatuses = <<TO_DO>>
    /\ "paidOnlyFilter" \in DOMAIN variables["filters"]
    /\ posts = 1

\* C6 as stated: every API call made while no session is loaded fails with
\* the session-not-loaded error and issues no POST.
C6_Original ==
    [][(result'.op \in ApiOps /\ ~IsSessionLoaded(session_token))
           => /\ result'.out.raised
              /\ result'.out.exc.kind = "SessionNotLoaded"
              /\ posts' = posts]_vars

\* C6, amended: an API call made while no session is loaded fails and
\* issues no POST; its error is the session-not-loaded error, except for
\* fetch_questions given a status that is no QuestionStatus, which fails on
\* that status first.  A POST is only ever sent from a state in which
\* is_session_loaded() is true.
C6_NoPostUnlessLoaded ==
    [][/\ posts' # posts => IsSessionLoaded(session_token)
       /\ (result'.op \in ApiOps /\ ~IsSessionLoaded(session_token))
              => /\ result'.out.raised
                 /\ posts' = posts
                 /\ request' = NoRequest
                 /\ result'.out.exc.kind =
                        IF /\ result'.op = "fetch_questions"
                           /\ filter_criteria'.status \notin
                                  {None, <<>>, <<"S","O","L","V","E","D">>, <<"A","T","T","E","M","P","T","E","D">>, <<"T","O","_","D","O">>}
                        THEN "InvalidStatus"
                        ELSE "SessionNotLoaded"]_vars

\* check_session was called with no session loaded and failed without a POST
C6_Witness ==
    /\ result.op = "check_session"
    /\ session_token = None
    /\ result.out.raised
    /\ result.out.exc.kind = "SessionNotLoaded"
    /\ posts = 0

\* C7: whenever load_session has returned False, no token is retained:
\* session_token is None and is_session_loaded() is false.
C7_FailedLoadKeepsNoToken ==
    (result.op = "load_session" /\ result.out.value = FALSE)
        => session_token = None /\ ~IsSessionLoaded(session_token)

\* C8: a decoded response is an API error when its status is not 200 or its
\* body has a non-empty errors array, the error carrying the joined
\* messages; with status 200 and no non-empty errors array it is returned
\* as a success.  Stated for the calls made with a non-empty token.
C8_Classification ==
    (result.op \in ApiOps /\ Truthy(session_token) /\ response # NoAnswer
         /\ ~response.failed /\ response.body.is_json) =>
        LET doc == response.body.doc
            errors == IF "errors" \in DOMAIN doc.v THEN doc.v["errors"].v ELSE <<>>
            api_error == result.out.raised
                         /\ result.out.exc.kind \in {"StatusCode", "GraphQLErrors"}
        IN  /\ (response.status_code # 200 \/ errors # <<>>)
                   => /\ api_error
                      /\ errors # <<>>
                             => Join(ErrorMessages(doc)) \in Range(result.out.exc.parts)
            /\ (response.status_code = 200 /\ errors = <<>>) => ~api_error

UserOf(doc) ==
    IF "data" \in DOMAIN doc.v /\ doc.v["data"].t = "obj"
       /\ "user" \in DOMAIN doc.v["data"].v
    THEN doc.v["data"].v["user"]
    ELSE JNull

\* C10: with HTTP 200 and no errors, a response whose data.user is null or
\* absent makes check_session fail with the session-invalid error; a
\* UserInfo is returned only when data.user is a non-empty record.  Stated
\* for the calls made with a non-empty token.
C10_NoUserIsSessionInvalid ==
    (result.op = "check_session" /\ Truthy(session_token)
         /\ response # NoAnswer /\ ~response.failed
         /\ response.body.is_json /\ response.status_code = 200
         /\ "errors" \notin DOMAIN response.body.doc.v) =>
        LET user == UserOf(response.body.doc)
        IN  /\ user = JNull
                   => result.out.raised /\ result.out.exc.kind = "SessionInvalid"
            /\ ~result.out.raised
                   => user.t = "obj" /\ DOMAIN user.v # {}

\* C12: a raw record that has its four required fields is mapped without
\* error whichever optional fields it lacks, each missing one taking its
\* default: status None, topics [], acceptance_rate 0.0, is_paid_only
\* False, frequency None.
C12_OptionalDefaults ==
    (mapped.kind = "question" /\ mapped.fn \in {"mapped", "again"}
         /\ RequiredKeys \subseteq DOMAIN mapped.raw.v) =>
        LET raw == mapped.raw.v
            q == mapped.out.value
        IN  /\ ~mapped.out.raised
            /\ "status" \notin DOMAIN raw => q.status = JNull
            /\ "topicTags" \notin DOMAIN raw => q.topics = <<>>
            /\ "acRate" \notin DOMAIN raw => q.acceptance_rate = JNum(0)
            /\ "paidOnly" \notin DOMAIN raw => q.is_paid_only = JBool(FALSE)
            /\ "frequency" \notin DOMAIN raw => q.frequency = JNull

\* A record with no optional field at all has been mapped to the defaults
C12_Witness ==
    /\ mapped.kind = "question"
    /\ mapped.fn = "mapped"
    /\ DOMAIN mapped.raw.v = RequiredKeys
    /\ ~mapped.out.raised
    /\ mapped.out.value.topics = <<>>
    /\ mapped.out.value.acceptance_rate = JNum(0)
    /\ mapped.out.value.id = JStr(<<"1">>)

\* C13: the Question mapped from a raw record holds the raw fields: id,
\* title, title_slug, difficulty, and status, acceptance_rate, is_paid_only,
\* frequency when the record has them; topics are the names of topicTags in
\* the same order; url is the problems URL followed by titleSlug; and the
\* second mapping of the record equals the first.
C13_FieldsAndUrl ==
    (mapped.kind = "question" /\ mapped.fn \in {"mapped", "again"}
         /\ ~mapped.out.raised) =>
        LET raw == mapped.raw.v
            q == mapped.out.value
            tags == IF "topicTags" \in DOMAIN raw THEN raw["topicTags"].v ELSE <<>>
        IN  /\ q.id = raw["questionFrontendId"]
            /\ q.title = raw["title"]
            /\ q.title_slug = raw["titleSlug"]
            /\ q.difficulty = raw["difficulty"]
            /\ "status" \in DOMAIN raw => q.status = raw["status"]
            /\ "acRate" \in DOMAIN raw => q.acceptance_rate = raw["acRate"]
            /\ "paidOnly" \in DOMAIN raw => q.is_paid_only = raw["paidOnly"]
            /\ "frequency" \in DOMAIN raw => q.frequency = raw["frequency"]
            /\ Len(q.topics) = Len(tags)
            /\ \A i \in DOMAIN tags : q.topics[i] = tags[i].v["name"]
            /\ mapped.url = UrlPrefix \o raw["titleSlug"].v
            /\ mapped.fn = "again" => mapped.again = mapped.out

\* The record with the tags Hash, Array, Hash has been mapped twice
C13_Witness ==
    /\ mapped.kind = "question"
    /\ mapped.fn = "again"
    /\ mapped.raw = q_other
    /\ ~mapped.out.raised
    /\ mapped.out.value.topics = <<JStr(<<"H","a","s","h">>), JStr(<<"A","r","r","a","y">>), JStr(<<"H","a","s","h">>)>>
    /\ mapped.url = <<"h","t","t","p","s",":","/","/","l","e","e","t","c","o","d","e",".","c","o","m","/","p","r","o","b","l","e","m","s","/","m","e","d","i","a","n">>

\* The acSubmissionNum list of a raw user record, empty when it has none
RawSubmissions(raw) ==
    IF HasKey(raw, "submitStats") /\ HasKey(raw.v["submitStats"], "acSubmissionNum")
    THEN raw.v["submitStats"].v["acSubmissionNum"].v
    ELSE <<>>

RECURSIVE SumOfList(_)
\* The sum of the counts of a raw list
SumOfList(submissions) ==
    IF submissions = <<>> THEN 0
    ELSE Head(submissions).v["count"].v + SumOfList(Tail(submissions))

\* C14 as stated: for every raw list, the Total of format_user_info is the
\* sum of the counts of the list, and solved_counts has exactly the
\* difficulties of the list as keys, each with the count of its entry.
C14_Original ==
    (mapped.kind = "user" /\ mapped.fn \in {"mapped", "again"} /\ ~mapped.out.raised) =>
        LET l == RawSubmissions(mapped.raw)
            counts == mapped.out.value.solved_counts
        IN  /\ mapped.total = SumOfList(l)
            /\ DOMAIN counts = {l[i].v["difficulty"] : i \in DOMAIN l}
            /\ \A i \in DOMAIN l : counts[l[i].v["difficulty"]] = l[i].v["count"]

\* C14, amended: solved_counts has exactly the difficulties of the raw list
\* as keys, each with the count of the last entry of the list that carries
\* it, and the Total is the sum of these counts; it is the sum of the counts
\* of the list when no difficulty is repeated in it.
C14_LastCountPerDifficulty ==
    (mapped.kind = "user" /\ mapped.fn \in {"mapped", "again"} /\ ~mapped.out.raised) =>
        LET l == RawSubmissions(mapped.raw)
            counts == mapped.out.value.solved_counts
            last(d) == CHOOSE i \in DOMAIN l :
                           /\ l[i].v["difficulty"] = d
                           /\ \A j \in DOMAIN l : l[j].v["difficulty"] = d => j <= i
            lasts == {last(d) : d \in DOMAIN counts}
            kept == [i \in DOMAIN l |-> IF i \in lasts THEN l[i].v["count"].v ELSE 0]
            distinct == \A i, j \in DOMAIN l :
                            l[i].v["difficulty"] = l[j].v["difficulty"] => i = j
        IN  /\ DOMAIN counts = {l[i].v["difficulty"] : i \in DOMAIN l}
            /\ \A d \in DOMAIN counts : counts[d] = l[last(d)].v["count"]
            /\ mapped.total = SumOfList([i \in DOMAIN l |-> Submission(Easy, kept[i])])
            /\ distinct => mapped.total = SumOfList(l)

\* The list Easy 1, Medium 2 has been mapped and totals 3
C14_Witness ==
    /\ mapped.kind = "user"
    /\ mapped.fn = "mapped"
    /\ mapped.raw = UserWith(<<Submission(Easy, 1), Submission(Medium, 2)>>)
    /\ ~mapped.out.raised
    /\ mapped.out.value.solved_counts = (JStr(Easy) :> JNum(1)) @@ (JStr(Medium) :> JNum(2))
    /\ mapped.total = 3

\* C15: the keys of solved_counts of every UserInfo the mapper produces are
\* among Easy, Medium, Hard, whatever labels the raw list carries.
C15_KeysAmongDifficulties ==
    (mapped.kind = "user" /\ mapped.fn \in {"mapped", "again"} /\ ~mapped.out.raised) =>
        DOMAIN mapped.out.value.solved_counts \subseteq {JStr(Easy), JStr(Medium), JStr(Hard)}

\* C11: no retries.  A call of check_session, fetch_questions or
\* search_questions issues at most one POST, exactly one when it has an
\* answer of the network, whatever the outcome; and a whole invocation of
\* the command line issues at most one.
C11_NoRetries ==
    [][/\ posts' \in {posts, posts + 1}
       /\ (result'.op \in ApiOps /\ response' # NoAnswer) => posts' = posts + 1
       /\ cli'.pc # "idle" => posts' <= 1]_vars

\* An invocation has ended on a network error after its single POST
C11_Witness ==
    /\ cli.pc = "done"
    /\ cli.exit_code = 1
    /\ result.op \in ApiOps
    /\ response # NoAnswer
    /\ response.failed
    /\ result.out.raised
    /\ result.out.exc.kind = "NetworkError"
    /\ posts = 1

\* C16: every QuestionFilter that the command line hands to the query
\* builder has limit > 0 and skip >= 0, and an invocation given another
\* value builds no request.
C16_LimitAndSkipValidated ==
    (cli.pc = "done" /\ cli.args.action \in {"show_questions", "export"}) =>
        /\ result.op = "fetch_questions"
               => filter_criteria.limit > 0 /\ filter_criteria.skip >= 0
        /\ (cli.args.limit <= 0 \/ cli.args.skip < 0)
               => variables = EmptyDict /\ posts = 0

\* C17: in every invocation, the QuestionFilter that reaches fetch_questions
\* has a status among None, SOLVED, ATTEMPTED, TO_DO and a difficulty among
\* None, Easy, Medium, Hard, on the show_questions, export and search paths;
\* it is the filter that was built from the arguments.
C17_CanonicalFilter ==
    (cli.pc = "done" /\ result.op \in {"fetch_questions", "search_questions"}) =>
        /\ filter_criteria.status \in {None, SOLVED, ATTEMPTED, TO_DO}
        /\ filter_criteria.difficulty \in {None, Easy, Medium, Hard}
        /\ Truthy(cli.args.status) /\ cli.args.action # "search"
               => filter_criteria.status = status_mapping[StrLower(cli.args.status)]
        /\ Truthy(cli.args.difficulty) /\ cli.args.action # "search"
               => filter_criteria.difficulty = difficulty_mapping[StrLower(cli.args.difficulty)]
        /\ cli.args.action = "search"
               => filter_criteria.status = None /\ filter_criteria.difficulty = None
        /\ request # NoRequest => request.json["variables"] = BuildVariables(filter_criteria)

\* An export given --status Solved --difficulty easy has fetched with the
\* filter SOLVED, Easy
C17_Witness ==
    /\ cli.pc = "done"
    /\ cli.args.action = "export"
    /\ cli.args.status = <<"S","o","l","v","e","d">>
    /\ cli.args.difficulty = w_easy
    /\ result.op = "fetch_questions"
    /\ filter_criteria.status = SOLVED
    /\ filter_criteria.difficulty = Easy
    /\ posts = 1

\* A value given to --status or --difficulty is outside the alias table
BadFilterValue(args) ==
    \/ Truthy(args.status) /\ StrLower(args.status) \notin DOMAIN status_mapping
    \/ Truthy(args.difficulty) /\ StrLower(args.difficulty) \notin DOMAIN difficulty_mapping

\* C18: for every action, an invocation whose --status or --difficulty value
\* is not in the alias table ends with the invalid-argument error and exit
\* code 1, and issues no HTTP request.  Stated for the invocations whose
\* session file loads and which, for search, give a keyword.
C18_BadValueRejected ==
    (cli.pc = "done" /\ BadFilterValue(cli.args) /\ IsSessionLoaded(session_token)
         /\ (cli.args.action = "search" => Truthy(cli.args.search))) =>
        /\ cli.exit_code = 1
        /\ cli.stderr = <<"Invalid argument">>
        /\ cli.error.type = "ValueError"
        /\ posts = 0

\* A filter argument outside what section 2 of the specification admits: a
\* status or difficulty that does not normalise, a limit that is not positive,
\* a negative skip
InvalidFilterArgument(args) ==
    \/ BadFilterValue(args)
    \/ args.limit <= 0
    \/ args.skip < 0

\* C19: the exit code is 0 exactly when the action succeeded (its API call
\* returned and nothing was raised after it) and 1 on every failure: an
\* invalid filter argument of a listing, search or export, a session file
\* that does not load, an invalid session, a network or API failure, a search
\* without keyword, a failure to write the export file; there is no other
\* exit code, and every invocation ends by run returning or by sys.exit.
C19_ExitCodes ==
    cli.pc = "done" =>
        LET args == cli.args
            succeeded == /\ result.op \in ApiOps
                         /\ ~result.out.raised
                         /\ cli.error = NoExc
        IN  /\ cli.exit_code \in {0, 1}
            /\ cli.exit_via \in {"return", "sys.exit"}
            /\ cli.exit_code = 0 <=> succeeded
            /\ (args.action # "check_session" /\ InvalidFilterArgument(args))
                   => cli.exit_code = 1
            /\ ~IsSessionLoaded(session_token) => cli.exit_code = 1
            /\ (result.op \in ApiOps /\ result.out.raised) => cli.exit_code = 1
            /\ (args.action = "search" /\ ~Truthy(args.search)) => cli.exit_code = 1
            /\ cli.file.state = "truncated" => cli.exit_code = 1
            /\ cli.error.type \in {"IOError", "TypeError", "ValueError"} => cli.exit_code = 1

\* C20: every invocation either produces the full formatted result and exits
\* 0 with nothing on standard error, or exits non-zero with a message on
\* standard error and no formatted result printed or left in the output file.
C20_ResultOrStderr ==
    cli.pc = "done" =>
        \/ /\ cli.exit_code = 0
           /\ cli.stderr = <<>>
           /\ cli.stdout # <<>>
           /\ cli.file.state \in {"untouched", "written"}
        \/ /\ cli.exit_code # 0
           /\ cli.stderr # <<>>
           /\ cli.printed = NoRender
           /\ cli.file.state # "written"
           /\ \A i \in DOMAIN cli.stdout :
                  cli.stdout[i] \notin {"questions", "user info", "statistics"}

\* C21: when export is run with --output and the fetch returns questions,
\* either the file holds exactly what the chosen formatter returns for those
\* questions and the exit code is 0, or writing the file failed and the exit
\* code is 1.
C21_ExportFile ==
    (/\ cli.pc = "done"
     /\ cli.args.action = "export"
     /\ Truthy(cli.args.output)
     /\ result.op = "fetch_questions"
     /\ ~result.out.raised
     /\ result.out.value # <<>>) =>
        \/ /\ cli.file.state = "written"
           /\ cli.file.content = [format |-> cli.args.format, questions |-> result.out.value]
           /\ cli.args.format \in Formats
           /\ cli.exit_code = 0
        \/ /\ cli.error.type = "IOError"
           /\ cli.file.state # "written"
           /\ cli.exit_code = 1

C23_CookiesIffLoaded ==
    LET cookies == GetSessionCookies(session_token)
    IN  /\ IsSessionLoaded(session_token) <=> DOMAIN cookies = {"LEETCODE_SESSION"}
        /\ ~IsSessionLoaded(session_token) <=> DOMAIN cookies = {}
        /\ DOMAIN cookies = {"LEETCODE_SESSION"} => cookies["LEETCODE_SESSION"] = session_token
        /\ (result.op \in ApiOps /\ response # NoAnswer) =>
               /\ DOMAIN request.cookies = {"LEETCODE_SESSION"}
               /\ request.cookies["LEETCODE_SESSION"] = session_token

\* C24: an invocation with an invalid --status or --difficulty ends with the
\* invalid-argument report, whatever the session file holds, and neither has
\* load_session been called nor a request been posted.  Stated for the
\* actions that take the filter, show_questions and export.
C24_RejectedBeforeIO ==
    (/\ cli.pc = "done"
     /\ cli.args.action \in {"show_questions", "export"}
     /\ BadFilterValue(cli.args)) =>
        /\ cli.stderr = <<"Invalid argument">>
        /\ cli.exit_code = 1
        /\ cli.stdout = <<>>
        /\ cli.loads = 0
        /\ posts = 0

\* C25: check_session, fetch_questions and search_questions leave the
\* session token and the session file as they were, whatever their outcome;
\* load_session leaves the file as it was; a step that changes the file is a
\* save_session.
C25_ReadOnlyOnFetchPath ==
    [][/\ result'.op \in ApiOps =>
              session_token' = session_token /\ session_file' = session_file
       /\ result'.op = "load_session" => session_file' = session_file
       /\ session_file' # session_file => result'.op = "save_session"]_vars

\* check_session was answered that the session is invalid, and the token
\* and the file are still the ones loaded
C25_Witness ==
    /\ result.op = "check_session"
    /\ response # NoAnswer
    /\ result.out.raised
    /\ result.out.exc.kind = "SessionInvalid"
    /\ session_token = <<"a">>
    /\ session_file = <<"a">>

\* C26: an invocation that the interrupt signal aborted has reported the
\* cancellation on standard error and ended with exit code 1, and it has
\* produced no result output, on standard output or in the output file.
C26_InterruptNoPartialOutput ==
    (cli.pc = "done" /\ cli.error = KeyboardInterrupt) =>
        /\ cli.stderr = <<"Operation cancelled by user">>
        /\ cli.exit_code = 1
        /\ cli.stdout = <<>>
        /\ cli.printed = NoRender
        /\ cli.file.state = "untouched"

HasQuestionsList(doc) ==
    /\ "data" \in DOMAIN doc.v
    /\ doc.v["data"].t = "obj"
    /\ "problemsetQuestionListV2" \in DOMAIN doc.v["data"].v
    /\ doc.v["data"].v["problemsetQuestionListV2"].t = "obj"
    /\ "questions" \in DOMAIN doc.v["data"].v["problemsetQuestionListV2"].v
    /\ doc.v["data"].v["problemsetQuestionListV2"].v["questions"].t = "list"

\* C28: when the server answers fetch_questions with HTTP 200, no errors
\* and a list of question records, a success returns one Question per
\* record, in the order of the list, and if some record lacks a required
\* field the call fails with a LeetCodeAPIError and returns no Question.
C28_AllOrNothingInOrder ==
    (/\ result.op = "fetch_questions"
     /\ response # NoAnswer
     /\ ~response.failed
     /\ response.status_code = StatusOK
     /\ response.body.is_json
     /\ "errors" \notin DOMAIN response.body.doc.v
     /\ HasQuestionsList(response.body.doc)) =>
        LET records == response.body.doc.v["data"].v["problemsetQuestionListV2"].v["questions"].v
            out == result.out
        IN  /\ (\E i \in DOMAIN records : ~(RequiredKeys \subseteq DOMAIN records[i].v)) =>
                   /\ out.raised
                   /\ out.exc.type = "LeetCodeAPIError"
                   /\ out.value = None
            /\ ~out.raised =>
                   /\ Len(out.value) = Len(records)
                   /\ \A i \in DOMAIN records :
                          /\ out.value[i].id = records[i].v["questionFrontendId"]
                          /\ out.value[i].title = records[i].v["title"]
                          /\ out.value[i].title_slug = records[i].v["titleSlug"]
                          /\ out.value[i].difficulty = records[i].v["difficulty"]

\* fetch_questions has failed on a list whose second record has no title
C28_Witness ==
    /\ result.op = "fetch_questions"
    /\ response = HttpResponse(StatusOK, Json(JObj(ProblemList(<<q_min, q_notitle>>))))
    /\ result.out.raised
    /\ result.out.exc.type = "LeetCodeAPIError"
    /\ result.out.exc.parts = <<KeyErrorOf(k_title).text>>

\* C29: the request of the search action carries searchKeyword = the
\* keyword, limit = the given limit, skip = 0 and filters =
\* {filterCombineType: ALL} alone, whatever --status, --difficulty, --skip
\* and --exclude-paid are; a search without keyword ends with exit code 1
\* and has posted no request.
C29_SearchRequest ==
    (cli.pc = "done" /\ cli.args.action = "search") =>
        /\ posts = 1 =>
               /\ Truthy(cli.args.search)
               /\ DOMAIN request.json = {"query", "variables"}
               /\ request.json["query"] = "PROBLEM_LIST"
               /\ LET v == request.json["variables"]
                  IN  /\ DOMAIN v = {"limit", "skip", "sortBy", "searchKeyword", "filters"}
                      /\ v["searchKeyword"] = cli.args.search
                      /\ v["limit"] = cli.args.limit
                      /\ v["skip"] = 0
                      /\ DOMAIN v["filters"] = {"filterCombineType"}
                      /\ v["filters"]["filterCombineType"] = "ALL"
        /\ (Truthy(cli.args.search) /\ result.op = "search_questions") => posts = 1
        /\ ~Truthy(cli.args.search) => cli.exit_code = 1 /\ posts = 0

\* A search given --skip, --exclude-paid and a limit of its own has posted
\* its request
C29_Witness ==
    /\ cli.pc = "done"
    /\ cli.args.action = "search"
    /\ cli.args.skip = 1
    /\ cli.args.exclude_paid
    /\ cli.args.limit = 2
    /\ posts = 1
    /\ request.json["variables"]["limit"] = 2

====
